---- MODULE Spec2Model ----
(***************************************************************************)
(* A model of raptor-gtfs-pipeline: the GTFS -> RAPTOR conversion pipeline *)
(* (reader, validator, transformer, writer) and the RAPTOR query engine.   *)
(*                                                                         *)
(* Three specifications share the variables below:                         *)
(*   Spec        the conversion pipeline run on an already read feed;      *)
(*   RaptorSpec  one raptor() query on a loaded network;                   *)
(*   ReaderSpec  reading the rows of trips.txt / stop_times.txt in file    *)
(*               order, then canonicalising the routes.                    *)
(* External GTFS identifiers are modelled as integers whose order is the   *)
(* lexicographic order of the identifier strings.                          *)
(***************************************************************************)
EXTENDS Integers, Sequences, FiniteSets, TLC

\* ------------------------------------------------------------------ bounds
\* Number of rows of stops.txt.
NumStops == 3
\* Largest number of rows of trips.txt.
MaxTrips == 2

\* math.inf / float("inf"): larger than every time of the model.
INF == 1000000

VARIABLES
    \* the GTFS directory
    files,      \* the rows of trips.txt and stop_times.txt, in file order
    \* convert()
    pc,         \* position of convert(): read, validated, routes, trips, indexed, written
    reader,     \* GTFSReader after read_all(): stops, routes, trips, stop_times
    config,     \* ConvertConfig
    report,     \* ValidationReport
    routes,     \* list[RouteData] built by build_routes, filled by build_and_sort_trips
    stops,      \* list[StopData] built by build_stops
    index,      \* NetworkIndex built by build_network_index
    out,        \* what _write_period_output wrote: routes.bin records, manifest stats
    \* raptor()
    net,            \* the loaded network: routes (stop_ids, trips) and the stops' transfers
    query,          \* source, target, departure_time, max_rounds
    rpc,            \* position of raptor(): round, scan, foot, answer, reconstruct, done
    k,              \* the round of the main loop
    tau,            \* tau[k][stop]
    parent,         \* parent[k][stop]
    marked,         \* marked[k]
    routes_to_scan, \* routes of the round not scanned yet
    foot_todo,      \* stops of list(marked[k]) whose transfers are not relaxed yet
    recon,          \* best_round, best_time, current_stop, current_round, journey
    result,         \* the returned value: "running", "None" or "journey"
    \* the artifacts
    disk,       \* the bytes of routes.bin and stops.bin as write_binary_files leaves them
    loaded,     \* what load_routes returned
    codec,      \* a time list and what encode_times / decode_times made of it
    \* the period split
    periods,        \* list[ServicePeriod] of convert(), empty without a split
    period_outputs, \* per period processed: its name, its filtered routes, what was written
    \* validate()
    outdir,         \* the output directory validate() is run on: its files' bytes, its manifest
    checked,        \* the ValidationReport validate() returned
    runs            \* per completed run of convert(): its start time, what it left on disk

pipe_vars == <<files, pc, reader, config, report, routes, stops, index, out>>

raptor_vars == <<net, query, rpc, k, tau, parent, marked, routes_to_scan, foot_todo,
                 recon, result>>

codec_vars == <<disk, loaded, codec>>

period_vars == <<periods, period_outputs>>

artifact_vars == <<outdir, checked, runs>>

vars == <<pipe_vars, raptor_vars, codec_vars, period_vars, artifact_vars>>

\* ------------------------------------------------------------ list helpers
Range(s) == {s[i] : i \in DOMAIN s}

Min(S) == CHOOSE x \in S : \A y \in S : x <= y

Max(S) == CHOOSE x \in S : \A y \in S : y <= x

\* sorted(set of integers)
RECURSIVE SortedSeq(_)
SortedSeq(S) ==
    IF S = {} THEN <<>> ELSE <<Min(S)>> \o SortedSeq(S \ {Min(S)})

\* [f(x) for x in s]
MapSeq(s, F(_)) == [i \in DOMAIN s |-> F(s[i])]

\* Python's comparison of two tuples: lexicographic, a proper prefix is smaller.
RECURSIVE TupleLess(_, _)
TupleLess(a, b) ==
    IF a = <<>> THEN b # <<>>
    ELSE IF b = <<>> THEN FALSE
    ELSE IF Head(a) # Head(b) THEN Head(a) < Head(b)
    ELSE TupleLess(Tail(a), Tail(b))

\* ------------------------------------------------------------ the GTFS feed
\* stop_id / route_id values of stops.txt and routes.txt.
StopIdsTxt == 11 .. (10 + NumStops)

RouteIdsTxt == {21, 22}

\* First arrival times a trip of the feed may have.
StartTimes == {0, 1}

\* trip_id of the i-th trip in trip_id order.
TripIdTxt(i) == 100 + i

\* Stop sequences a trip of the feed may follow (stop_id values in stop_sequence order).
Patterns == { <<11, 12, 13>>, <<13, 12, 11>>, <<12, 13>>, <<12, 11, 13>> }

\* One trip of the feed: its trips.txt row, its stop pattern, its first arrival time.
\* A trip reaches the j-th stop of its pattern at start + j - 1.
TripChoice == [route_id : RouteIdsTxt, direction_id : {0, 1},
               pattern : Patterns, start : StartTimes]

\* The stop_times rows of trip i, in stop_sequence order.
StopTimeRows(i, c) ==
    [j \in 1 .. Len(c.pattern) |->
        [trip_id |-> TripIdTxt(i), stop_id |-> c.pattern[j],
         arrival_time |-> c.start + j - 1, departure_time |-> c.start + j - 1,
         stop_sequence |-> j]]

RECURSIVE ConcatRows(_, _)
ConcatRows(f, i) ==
    IF i > Len(f) THEN <<>> ELSE StopTimeRows(i, f[i]) \o ConcatRows(f, i + 1)

\* Internal ID of an external ID: its rank among the sorted external IDs
\* (read_stops / read_routes / read_trips enumerate the sorted rows from 0).
RankIn(x, S) == Cardinality({y \in S : y < x})

\* GTFSReader after read_all() on the feed made of the trips f: every list sorted
\* as the reader sorts it (stops, routes, trips by ID; stop_times by trip_id, stop_sequence).
ReaderOf(f) ==
    [stops |-> [i \in 1 .. NumStops |-> [stop_id |-> 10 + i]],
     stop_id_map |-> [x \in StopIdsTxt |-> RankIn(x, StopIdsTxt)],
     routes |-> [i \in 1 .. Cardinality(RouteIdsTxt) |-> [route_id |-> SortedSeq(RouteIdsTxt)[i]]],
     route_id_map |-> [x \in RouteIdsTxt |-> RankIn(x, RouteIdsTxt)],
     trips |-> [i \in 1 .. Len(f) |->
                  [trip_id |-> TripIdTxt(i), route_id |-> f[i].route_id,
                   direction_id |-> f[i].direction_id]],
     trip_id_map |-> [x \in {TripIdTxt(i) : i \in 1 .. Len(f)} |->
                        RankIn(x, {TripIdTxt(i) : i \in 1 .. Len(f)})],
     stop_times |-> ConcatRows(f, 1)]

get_internal_stop_id(rd, gtfs_stop_id) == rd.stop_id_map[gtfs_stop_id]

get_internal_route_id(rd, gtfs_route_id) == rd.route_id_map[gtfs_route_id]

get_internal_trip_id(rd, gtfs_trip_id) == rd.trip_id_map[gtfs_trip_id]

\* ------------------------------------------------------------ validator
\* GTFSValidator.validate(): the errors that block the transformation.
ValidationErrors(rd) ==
    { "no_routes" : x \in {1} \cap (IF Len(rd.routes) = 0 THEN {1} ELSE {}) }
    \cup { "trip_without_route" : t \in
             {u \in Range(rd.trips) : u.route_id \notin {r.route_id : r \in Range(rd.routes)}} }
    \cup { "stop_time_without_trip" : st \in
             {u \in Range(rd.stop_times) : u.trip_id \notin {t.trip_id : t \in Range(rd.trips)}} }
    \cup { "stop_time_without_stop" : st \in
             {u \in Range(rd.stop_times) : u.stop_id \notin {s.stop_id : s \in Range(rd.stops)}} }
    \cup { "unordered_stop_sequence" : p \in
             {q \in (DOMAIN rd.stop_times) \X (DOMAIN rd.stop_times) :
                 /\ q[1] < q[2]
                 /\ rd.stop_times[q[1]].trip_id = rd.stop_times[q[2]].trip_id
                 /\ rd.stop_times[q[1]].stop_sequence > rd.stop_times[q[2]].stop_sequence} }
    \cup { "missing_first_arrival" : i \in
             {j \in DOMAIN rd.stop_times :
                 /\ rd.stop_times[j].arrival_time < 0
                 /\ \A h \in 1 .. (j - 1) : rd.stop_times[h].trip_id # rd.stop_times[j].trip_id} }

\* The warnings about times: an arrival before the previous departure of the same trip.
TimeWarnings(rd) ==
    { j \in DOMAIN rd.stop_times :
        /\ j > 1
        /\ rd.stop_times[j - 1].trip_id = rd.stop_times[j].trip_id
        /\ rd.stop_times[j].arrival_time < rd.stop_times[j - 1].departure_time }

validate_feed(rd) ==
    [valid |-> ValidationErrors(rd) = {},
     errors |-> ValidationErrors(rd),
     warnings |-> Cardinality(TimeWarnings(rd))]

\* ------------------------------------------------------------ build_routes
\* sorted() of a set of (route_id, direction_id) keys.
RECURSIVE SortedKeys(_)
SortedKeys(S) ==
    IF S = {} THEN <<>>
    ELSE LET first == CHOOSE x \in S : \A y \in S : x = y \/ TupleLess(x, y)
         IN  <<first>> \o SortedKeys(S \ {first})

\* trips_by_route_dir[key]: the trip_ids of the group, in reader.trips order.
TripsOfKey(rd, key) ==
    LET InGroup(t) == t.route_id = key[1] /\ t.direction_id = key[2]
        Id(t) == t.trip_id
    IN  MapSeq(SelectSeq(rd.trips, InGroup), Id)

\* stop_sequences[trip_id]: the stop_ids of the trip's rows, in reader.stop_times order.
StopSequence(rd, trip_id) ==
    LET OfTrip(st) == st.trip_id = trip_id
        StopOf(st) == st.stop_id
    IN  MapSeq(SelectSeq(rd.stop_times, OfTrip), StopOf)

\* sequences_for_route: one tuple per trip of the group that has stop_times.
SequencesForRoute(rd, key) ==
    LET Seq0(trip_id) == StopSequence(rd, trip_id)
        HasRows(q) == q # <<>>
    IN  SelectSeq(MapSeq(TripsOfKey(rd, key), Seq0), HasRows)

\* Counter(sequences)[q]
CountOf(sequences, q) == Cardinality({i \in DOMAIN sequences : sequences[i] = q})

\* The distinct elements of a list, in order of first occurrence (a Counter's key order).
RECURSIVE Distinct(_)
Distinct(sequences) ==
    IF sequences = <<>> THEN <<>>
    ELSE LET NotHead(q) == q # Head(sequences)
         IN  <<Head(sequences)>> \o Distinct(SelectSeq(Tail(sequences), NotHead))

\* min() of a non-empty list of tuples.
MinTuple(tuples) ==
    CHOOSE x \in Range(tuples) : \A y \in Range(tuples) : x = y \/ TupleLess(x, y)

\* _find_canonical_sequence: most_common()[0], replaced by min(tied) on a tie.
\* most_common() lists the keys by count, equal counts in order of first occurrence.
find_canonical_sequence(sequences) ==
    LET keys == Distinct(sequences)
        canonical_count == Max({CountOf(sequences, q) : q \in Range(keys)})
        IsTied(q) == CountOf(sequences, q) = canonical_count
        tied_sequences == SelectSeq(keys, IsTied)
    IN  IF Len(tied_sequences) > 1 THEN MinTuple(tied_sequences)
        ELSE Head(tied_sequences)

\* The RouteData built for one (route_id, direction_id) group.  RouteData has no
\* direction field: key_direction only records the group the route was built for.
RouteDataOf(rd, key) ==
    LET canonical_seq == find_canonical_sequence(SequencesForRoute(rd, key))
        Internal(stop_id) == get_internal_stop_id(rd, stop_id)
    IN  [route_id_internal |-> get_internal_route_id(rd, key[1]),
         route_id_gtfs |-> key[1],
         key_direction |-> key[2],
         stop_ids |-> MapSeq(canonical_seq, Internal),
         trips |-> <<>>]

build_routes(rd) ==
    LET keys == SortedKeys({<<t.route_id, t.direction_id>> : t \in Range(rd.trips)})
        HasSequences(key) == SequencesForRoute(rd, key) # <<>>
        Build(key) == RouteDataOf(rd, key)
    IN  MapSeq(SelectSeq(keys, HasSequences), Build)

\* ------------------------------------------------------------ build_and_sort_trips
\* stop_time_map[stop]: the arrival time of the last row of the trip at that stop.
StopTimeMap(rd, trip_id) ==
    LET OfTrip(st) == st.trip_id = trip_id
        rows == SelectSeq(rd.stop_times, OfTrip)
        served == {get_internal_stop_id(rd, rows[j].stop_id) : j \in DOMAIN rows}
    IN  [s \in served |->
            rows[Max({j \in DOMAIN rows : get_internal_stop_id(rd, rows[j].stop_id) = s})]
                .arrival_time]

\* Mutant of AlignedTimes: the map is probed with the external stop_id of the canonical
\* stop instead of its internal ID.
AlignedTimes_ExternalKey(rd, trip_id, canonical_stops) ==
    LET m == StopTimeMap(rd, trip_id)
        External(s) == rd.stops[s + 1].stop_id
    IN  [i \in DOMAIN canonical_stops |->
            IF External(canonical_stops[i]) \in DOMAIN m
            THEN m[External(canonical_stops[i])] ELSE INF]

\* aligned_times: the mapped time of each canonical stop, math.inf where it is missing.
AlignedTimes(rd, trip_id, canonical_stops) ==
    LET m == StopTimeMap(rd, trip_id)
    IN  [i \in DOMAIN canonical_stops |->
            IF canonical_stops[i] \in DOMAIN m THEN m[canonical_stops[i]] ELSE INF]

IsPartial(times) == \E i \in DOMAIN times : times[i] = INF

\* The trips build_and_sort_trips considers for a route.
RouteTrips(rd, route) ==
    LET OfRoute(t) == t.route_id = route.route_id_gtfs
    IN  SelectSeq(rd.trips, OfRoute)

\* The (first_time, TripData) pair appended for one trip.
TripEntry(rd, route, trip) ==
    LET aligned_times == AlignedTimes(rd, trip.trip_id, route.stop_ids)
    IN  [first_time |-> IF aligned_times # <<>> THEN aligned_times[1] ELSE INF,
         td |-> [trip_id_internal |-> get_internal_trip_id(rd, trip.trip_id),
                 trip_id_gtfs |-> trip.trip_id,
                 arrival_times |-> aligned_times,
                 is_partial |-> IsPartial(aligned_times)]]

\* Mutant of TripKept: the rejection of partial trips is left out.
TripKept_NoRejection(rd, route, trip, allow_partial) ==
    StopSequence(rd, trip.trip_id) # <<>>

\* Whether the loop appends the trip: it has stop_times, and is not a rejected partial trip.
TripKept(rd, route, trip, allow_partial) ==
    /\ StopSequence(rd, trip.trip_id) # <<>>
    /\ ~(IsPartial(AlignedTimes(rd, trip.trip_id, route.stop_ids)) /\ ~allow_partial)

\* list.sort(key=lambda x: x[0]): a stable sort by first_time.
RECURSIVE InsertByKey(_, _)
InsertByKey(sorted, e) ==
    IF sorted = <<>> THEN <<e>>
    ELSE IF Head(sorted).first_time <= e.first_time
         THEN <<Head(sorted)>> \o InsertByKey(Tail(sorted), e)
         ELSE <<e>> \o sorted

RECURSIVE SortByKey(_)
SortByKey(entries) ==
    IF entries = <<>> THEN <<>>
    ELSE InsertByKey(SortByKey(SubSeq(entries, 1, Len(entries) - 1)), entries[Len(entries)])

\* route.trips as build_and_sort_trips leaves it.
SortedTripsOf(rd, route, allow_partial) ==
    LET Kept(trip) == TripKept(rd, route, trip, allow_partial)
        Entry(trip) == TripEntry(rd, route, trip)
        Td(e) == e.td
    IN  MapSeq(SortByKey(MapSeq(SelectSeq(RouteTrips(rd, route), Kept), Entry)), Td)

build_and_sort_trips(rd, rts, allow_partial) ==
    [i \in DOMAIN rts |->
        [rts[i] EXCEPT !.trips = SortedTripsOf(rd, rts[i], allow_partial)]]

\* ------------------------------------------------------------ build_stops, index
\* sorted(stop_to_routes.get(stop, set())): the internal route IDs of the routes
\* whose canonical pattern contains the stop.
RouteIdsAt(rts, stop_id_internal) ==
    SortedSeq({rts[i].route_id_internal :
                 i \in {j \in DOMAIN rts : stop_id_internal \in Range(rts[j].stop_ids)}})

build_stops(rd, rts) ==
    [i \in DOMAIN rd.stops |->
        [stop_id_internal |-> get_internal_stop_id(rd, rd.stops[i].stop_id),
         stop_id_gtfs |-> rd.stops[i].stop_id,
         route_ids |-> RouteIdsAt(rts, get_internal_stop_id(rd, rd.stops[i].stop_id)),
         transfers |-> <<>>]]

\* NetworkIndex.stop_to_routes: an entry for every stop with a non-empty route list;
\* the offset dictionaries are empty until the binary files are written.
build_network_index(rts, sts) ==
    [stop_to_routes |->
        [s \in {sts[i].stop_id_internal : i \in {j \in DOMAIN sts : sts[j].route_ids # <<>>}} |->
            SortedSeq(Range(sts[CHOOSE i \in DOMAIN sts : sts[i].stop_id_internal = s].route_ids))],
     route_offsets |-> <<>>,
     stop_offsets |-> <<>>]

\* ------------------------------------------------------------ writer
\* encode_times with every delta taken from the first value.
encode_times_FromFirst(times) ==
    [i \in DOMAIN times |-> IF i = 1 THEN times[1] ELSE times[i] - times[1]]

\* encode_times: the first value absolute, then the difference to the previous value.
encode_times(times) ==
    [i \in DOMAIN times |-> IF i = 1 THEN times[1] ELSE times[i] - times[i - 1]]

\* RoutesWriter.write_route: the fields of one route record, in the order written.
write_route(route, compression) ==
    LET Defined(t) == t # INF
        TripRecord(trip) ==
            [trip_id_internal |-> trip.trip_id_internal,
             times |-> IF compression
                       THEN encode_times(SelectSeq(trip.arrival_times, Defined))
                       ELSE SelectSeq(trip.arrival_times, Defined)]
    IN  [route_id_internal |-> route.route_id_internal,
         stop_count |-> Len(route.stop_ids),
         trip_count |-> Len(route.trips),
         stop_ids |-> route.stop_ids,
         trips |-> MapSeq(route.trips, TripRecord)]

RECURSIVE SumSeq(_)
SumSeq(s) == IF s = <<>> THEN 0 ELSE Head(s) + SumSeq(Tail(s))

\* The stats of the manifest _write_period_output creates.
ManifestStats(rts, sts) ==
    LET TripCount(r) == Len(r.trips)
        Cells(r) == Len(r.stop_ids) * Len(r.trips)
    IN  [stops |-> Len(sts),
         routes |-> Len(rts),
         trips |-> SumSeq(MapSeq(rts, TripCount)),
         stop_times |-> SumSeq(MapSeq(rts, Cells))]

\* ------------------------------------------------------------ convert()
NoReport == [valid |-> FALSE, errors |-> {}, warnings |-> 0]

NoIndex == [stop_to_routes |-> <<>>, route_offsets |-> <<>>, stop_offsets |-> <<>>]

\* The rows of the two files a reader holds after read_all().
FilesOf(rd) == [trips |-> rd.trips, stop_times |-> rd.stop_times]

NoFiles == [trips |-> <<>>, stop_times |-> <<>>]

NoOutput == [routes_bin |-> <<>>, stats |-> [stops |-> 0, routes |-> 0, trips |-> 0, stop_times |-> 0],
             written |-> <<>>, manifest_outputs |-> {}]

\* Nothing is written, loaded or encoded.
NoDisk == [routes_bin |-> <<>>, stops_bin |-> <<>>]

NoLoaded == [ok |-> FALSE, routes |-> <<>>]

NoTimes == [step |-> "idle", input |-> <<>>, encoded |-> <<>>, decoded |-> <<>>]

CodecIdle ==
    /\ disk = NoDisk
    /\ loaded = NoLoaded
    /\ codec = NoTimes

\* convert() has no periods.
PeriodIdle ==
    /\ periods = <<>>
    /\ period_outputs = <<>>

\* validate() has not been called.
NotChecked == [valid |-> FALSE, errors |-> {}, warnings |-> {}]

ArtifactIdle ==
    /\ outdir = [files |-> <<>>, manifest |-> [exists |-> FALSE, json |-> FALSE, outputs |-> <<>>]]
    /\ checked = NotChecked
    /\ runs = <<>>

\* No query is running.
NoNetwork == [routes |-> <<>>, transfers |-> <<>>]

NoQuery == [source |-> 0, target |-> 0, departure_time |-> 0, max_rounds |-> 0]

NoRecon == [best_round |-> 0, best_time |-> INF, current_stop |-> 0, current_round |-> 0,
            journey |-> <<>>, visited |-> {}]

RaptorIdle ==
    /\ net = NoNetwork
    /\ query = NoQuery
    /\ rpc = "idle"
    /\ k = 0
    /\ tau = <<>>
    /\ parent = <<>>
    /\ marked = <<>>
    /\ routes_to_scan = {}
    /\ foot_todo = {}
    /\ recon = NoRecon
    /\ result = "running"

\* convert() after reader.read_all(): a feed of 1..MaxTrips trips and a configuration.
Init ==
    /\ pc = "read"
    /\ \E n \in 1 .. MaxTrips : \E f \in [1 .. n -> TripChoice] : reader = ReaderOf(f)
    /\ files = FilesOf(reader)
    /\ config \in [allow_partial_trips : BOOLEAN, compression : BOOLEAN,
                     format : {"binary"}, debug_json : {FALSE},
                     split_by_periods : {FALSE}, mode : {"auto"}]
    /\ report = NoReport
    /\ routes = <<>>
    /\ stops = <<>>
    /\ index = NoIndex
    /\ out = NoOutput
    /\ RaptorIdle
    /\ CodecIdle
    /\ PeriodIdle
    /\ ArtifactIdle

\* The validation step without the raise on an invalid report.
Validate_NeverRaises ==
    /\ pc = "read"
    /\ report' = validate_feed(reader)
    /\ pc' = "validated"
    /\ UNCHANGED <<files, reader, config, routes, stops, index, out>>
    /\ UNCHANGED raptor_vars
    /\ UNCHANGED codec_vars
    /\ UNCHANGED period_vars
    /\ UNCHANGED artifact_vars

\* validator.validate(); convert raises when the report is not valid.
Validate ==
    /\ pc = "read"
    /\ report' = validate_feed(reader)
    /\ pc' = IF validate_feed(reader).valid THEN "validated" ELSE "failed"
    /\ UNCHANGED <<files, reader, config, routes, stops, index, out>>
    /\ UNCHANGED raptor_vars
    /\ UNCHANGED codec_vars
    /\ UNCHANGED period_vars
    /\ UNCHANGED artifact_vars

\* routes = build_routes(reader)
BuildRoutes ==
    /\ pc = IF config.split_by_periods THEN "analyzed" ELSE "validated"
    /\ routes' = build_routes(reader)
    /\ pc' = "routes"
    /\ UNCHANGED <<files, reader, config, report, stops, index, out>>
    /\ UNCHANGED raptor_vars
    /\ UNCHANGED codec_vars
    /\ UNCHANGED period_vars
    /\ UNCHANGED artifact_vars

\* build_and_sort_trips(reader, routes, allow_partial=config.allow_partial_trips)
BuildAndSortTrips ==
    /\ pc = "routes"
    /\ routes' = build_and_sort_trips(reader, routes, config.allow_partial_trips)
    /\ pc' = "trips"
    /\ UNCHANGED <<files, reader, config, report, stops, index, out>>
    /\ UNCHANGED raptor_vars
    /\ UNCHANGED codec_vars
    /\ UNCHANGED period_vars
    /\ UNCHANGED artifact_vars

\* _write_period_output, first half: build_stops, build_transfers (the feed has no
\* transfers.txt and gen_transfers is off), build_network_index.
BuildStopsAndIndex ==
    /\ pc = "trips"
    /\ periods = <<>>
    /\ stops' = build_stops(reader, routes)
    /\ index' = build_network_index(routes, build_stops(reader, routes))
    /\ pc' = "indexed"
    /\ UNCHANGED <<files, reader, config, report, routes, out>>
    /\ UNCHANGED raptor_vars
    /\ UNCHANGED codec_vars
    /\ UNCHANGED period_vars
    /\ UNCHANGED artifact_vars

\* The files write_binary_files and write_json_files create, in the order they
\* are opened for writing: files_written of _write_period_output.
BinaryFiles == <<"routes.bin", "stops.bin", "index.bin">>

JsonFiles == <<"routes.json", "stops.json", "index.json">>

FilesWritten(cfg) ==
    (IF cfg.format \in {"binary", "both"} THEN BinaryFiles ELSE <<>>)
    \o (IF cfg.format \in {"json", "both"} \/ cfg.debug_json THEN JsonFiles ELSE <<>>)

\* _write_period_output, second half: write_binary_files, write_json_files, the
\* checksums of the files written, and manifest.json last.
WriteOutput ==
    /\ pc = "indexed"
    /\ out' = [routes_bin |-> IF config.format \in {"binary", "both"}
                                THEN [i \in DOMAIN routes |-> write_route(routes[i], config.compression)]
                                ELSE <<>>,
               stats |-> ManifestStats(routes, stops),
               written |-> FilesWritten(config) \o <<"manifest.json">>,
               manifest_outputs |-> Range(FilesWritten(config))]
    /\ pc' = "written"
    /\ UNCHANGED <<files, reader, config, report, routes, stops, index>>
    /\ UNCHANGED raptor_vars
    /\ UNCHANGED codec_vars
    /\ UNCHANGED period_vars
    /\ UNCHANGED artifact_vars

Next ==
    \/ Validate
    \/ BuildRoutes
    \/ BuildAndSortTrips
    \/ BuildStopsAndIndex
    \/ WriteOutput

Spec == Init /\ [][Next]_vars

\* ================================================================ read_all()
\* ------------------------------------------------------------ the files
\* Number of rows of trips.txt in the feeds read in file order.
NumFileTrips == 3

\* The two stop_times rows a trip may have: their stop_id and stop_sequence values.
FileTripChoice ==
    { [stops |-> <<12, 11>>, sequence |-> <<1, 2>>],
      [stops |-> <<11, 12>>, sequence |-> <<1, 2>>],
      [stops |-> <<11, 12>>, sequence |-> <<1, 1>>] }

\* The trips.txt rows: every trip on route 21, the last one in direction last_direction.
FileTrips(last_direction) ==
    [i \in 1 .. NumFileTrips |->
        [trip_id |-> TripIdTxt(i), route_id |-> 21,
         direction_id |-> IF i = NumFileTrips THEN last_direction ELSE 0]]

FileTripRows(i, c) ==
    [j \in DOMAIN c.stops |->
        [trip_id |-> TripIdTxt(i), stop_id |-> c.stops[j],
         arrival_time |-> j - 1, departure_time |-> j - 1,
         stop_sequence |-> c.sequence[j]]]

RECURSIVE FileRows(_, _)
FileRows(f, i) ==
    IF i > Len(f) THEN <<>> ELSE FileTripRows(i, f[i]) \o FileRows(f, i + 1)

\* The orders in which n rows can stand in a file.
RowOrders(n) == {p \in [1 .. n -> 1 .. n] : \A a, b \in 1 .. n : p[a] = p[b] => a = b}

Permute(rows, p) == [i \in DOMAIN rows |-> rows[p[i]]]

\* ------------------------------------------------------------ the reader
\* list.sort(key=...): a stable sort of [key, row] entries by their key tuple.
RECURSIVE InsertKeyed(_, _)
InsertKeyed(sorted, e) ==
    IF sorted = <<>> THEN <<e>>
    ELSE IF TupleLess(e.key, Head(sorted).key)
         THEN <<e>> \o sorted
         ELSE <<Head(sorted)>> \o InsertKeyed(Tail(sorted), e)

RECURSIVE SortKeyed(_)
SortKeyed(entries) ==
    IF entries = <<>> THEN <<>>
    ELSE InsertKeyed(SortKeyed(SubSeq(entries, 1, Len(entries) - 1)), entries[Len(entries)])

RowOf(e) == e.row

\* The loop after the sort in read_stops / read_routes / read_trips: the idx-th
\* row (from 0) sets map[external ID] = idx, a later row of the same ID overwriting
\* the entry of an earlier one, and sets internal_to[idx] = external ID.
id_map(sorted_ids) ==
    [x \in Range(sorted_ids) |-> Max({i \in DOMAIN sorted_ids : sorted_ids[i] = x}) - 1]

internal_to(sorted_ids) ==
    [idx \in 0 .. (Len(sorted_ids) - 1) |-> sorted_ids[idx + 1]]

\* read_stops: the rows of stops.txt sorted by stop_id.
read_stops(rows) ==
    LET Keyed(row) == [key |-> <<row.stop_id>>, row |-> row]
    IN  MapSeq(SortKeyed(MapSeq(rows, Keyed)), RowOf)

\* read_routes: the rows of routes.txt sorted by route_id.
read_routes(rows) ==
    LET Keyed(row) == [key |-> <<row.route_id>>, row |-> row]
    IN  MapSeq(SortKeyed(MapSeq(rows, Keyed)), RowOf)

\* read_trips: the rows of trips.txt sorted by trip_id.
read_trips(rows) ==
    LET Keyed(row) == [key |-> <<row.trip_id>>, row |-> row]
    IN  MapSeq(SortKeyed(MapSeq(rows, Keyed)), RowOf)

\* read_stop_times: the rows of stop_times.txt sorted by (trip_id, stop_sequence).
read_stop_times(rows) ==
    LET Keyed(row) == [key |-> <<row.trip_id, row.stop_sequence>>, row |-> row]
    IN  MapSeq(SortKeyed(MapSeq(rows, Keyed)), RowOf)

\* read_all(): stops.txt and routes.txt as in ReaderOf, trips and stop_times from fl.
read_all(fl) ==
    LET TripId(t) == t.trip_id
    IN  [ReaderOf(<<>>) EXCEPT
            !.trips = read_trips(fl.trips),
            !.trip_id_map = id_map(MapSeq(read_trips(fl.trips), TripId)),
            !.stop_times = read_stop_times(fl.stop_times)]

\* ------------------------------------------------------------ convert() from the files
\* convert() before reader.read_all(): the two files in some row order.
ReaderInit ==
    /\ pc = "files"
    /\ \E f \in [1 .. NumFileTrips -> FileTripChoice], d \in {0, 1},
          p \in RowOrders(NumFileTrips), q \in RowOrders(2 * NumFileTrips) :
          files = [trips |-> Permute(FileTrips(d), p),
                   stop_times |-> Permute(FileRows(f, 1), q)]
    /\ reader = ReaderOf(<<>>)
    /\ config = [allow_partial_trips |-> FALSE, compression |-> TRUE,
                 format |-> "binary", debug_json |-> FALSE,
                 split_by_periods |-> FALSE, mode |-> "auto"]
    /\ report = NoReport
    /\ routes = <<>>
    /\ stops = <<>>
    /\ index = NoIndex
    /\ out = NoOutput
    /\ RaptorIdle
    /\ CodecIdle
    /\ PeriodIdle
    /\ ArtifactIdle

\* reader.read_all()
ReadAll ==
    /\ pc = "files"
    /\ reader' = read_all(files)
    /\ pc' = "read"
    /\ UNCHANGED <<files, config, report, routes, stops, index, out>>
    /\ UNCHANGED raptor_vars
    /\ UNCHANGED codec_vars
    /\ UNCHANGED period_vars
    /\ UNCHANGED artifact_vars

ReaderNext ==
    \/ ReadAll
    \/ Validate
    \/ BuildRoutes

ReaderSpec == ReaderInit /\ [][ReaderNext]_vars

\* ------------------------------------------------------------ the ID maps
\* Most rows stops.txt, routes.txt and trips.txt have in the feeds whose ID maps
\* are read.
MaxRows == 3

\* The rows of a table: any external IDs of ids, repeated or not, in any order;
\* each row carries its line number in the file.
TableRows(ids, most) ==
    UNION { [1 .. n -> ids] : n \in 1 .. most }

\* GTFSReader.__init__: empty lists and maps.
EmptyReader ==
    [stops |-> <<>>, stop_id_map |-> <<>>, internal_to_stop |-> <<>>,
     routes |-> <<>>, route_id_map |-> <<>>, internal_to_route |-> <<>>,
     trips |-> <<>>, trip_id_map |-> <<>>, internal_to_trip |-> <<>>,
     stop_times |-> <<>>]

\* read_stops, read_routes and read_trips of read_all(): the sorted lists and the
\* two maps of each table (stop_times.txt is empty).
read_tables(fl) ==
    LET StopId(r) == r.stop_id
        RouteId(r) == r.route_id
        TripId(r) == r.trip_id
        stop_ids == MapSeq(read_stops(fl.stops), StopId)
        route_ids == MapSeq(read_routes(fl.routes), RouteId)
        trip_ids == MapSeq(read_trips(fl.trips), TripId)
    IN  [stops |-> read_stops(fl.stops),
         stop_id_map |-> id_map(stop_ids), internal_to_stop |-> internal_to(stop_ids),
         routes |-> read_routes(fl.routes),
         route_id_map |-> id_map(route_ids), internal_to_route |-> internal_to(route_ids),
         trips |-> read_trips(fl.trips),
         trip_id_map |-> id_map(trip_ids), internal_to_trip |-> internal_to(trip_ids),
         stop_times |-> read_stop_times(fl.stop_times)]

\* convert() before reader.read_all() on the three tables.
TablesInit ==
    /\ pc = "files"
    /\ \E s \in TableRows(StopIdsTxt, MaxRows), r \in TableRows(RouteIdsTxt, 2),
          t \in TableRows({101, 102}, 2) :
          files = [stops |-> [i \in DOMAIN s |-> [stop_id |-> s[i], line |-> i]],
                   routes |-> [i \in DOMAIN r |-> [route_id |-> r[i], line |-> i]],
                   trips |-> [i \in DOMAIN t |->
                                [trip_id |-> t[i], route_id |-> 21, direction_id |-> 0, line |-> i]],
                   stop_times |-> <<>>]
    /\ reader = EmptyReader
    /\ config = [allow_partial_trips |-> FALSE, compression |-> TRUE,
                 format |-> "binary", debug_json |-> FALSE,
                 split_by_periods |-> FALSE, mode |-> "auto"]
    /\ report = NoReport
    /\ routes = <<>>
    /\ stops = <<>>
    /\ index = NoIndex
    /\ out = NoOutput
    /\ RaptorIdle
    /\ CodecIdle
    /\ PeriodIdle
    /\ ArtifactIdle

\* reader.read_all()
ReadTables ==
    /\ pc = "files"
    /\ reader' = read_tables(files)
    /\ pc' = "read"
    /\ UNCHANGED <<files, config, report, routes, stops, index, out>>
    /\ UNCHANGED raptor_vars
    /\ UNCHANGED codec_vars
    /\ UNCHANGED period_vars
    /\ UNCHANGED artifact_vars

TablesNext ==
    \/ ReadTables
    \/ Validate
    \/ BuildRoutes
    \/ BuildAndSortTrips
    \/ BuildStopsAndIndex

TablesSpec == TablesInit /\ [][TablesNext]_vars

\* ------------------------------------------------------------ convert(), any feed
\* What may be wrong with a trip of the feed: its route is not in routes.txt, its
\* first stop is not in stops.txt, or its row is missing from trips.txt.
Defects == {"none", "unknown_route", "unknown_stop", "no_trip_row"}

ConvertTripChoice == [pattern : {<<11, 12, 13>>, <<12, 13>>}, defect : Defects]

\* trips.txt and stop_times.txt of the feed made of the trips f.
ConvertFiles(f) ==
    LET sound == [i \in DOMAIN f |->
                    [route_id |-> 21, direction_id |-> 0, pattern |-> f[i].pattern, start |-> 0]]
        DefectOf(trip_id) == f[trip_id - 100].defect
        HasRow(trip) == DefectOf(trip.trip_id) # "no_trip_row"
        TripRow(trip) ==
            IF DefectOf(trip.trip_id) = "unknown_route" THEN [trip EXCEPT !.route_id = 29] ELSE trip
        StopTimeRow(st) ==
            IF DefectOf(st.trip_id) = "unknown_stop" /\ st.stop_sequence = 1
            THEN [st EXCEPT !.stop_id = 19] ELSE st
    IN  [trips |-> MapSeq(SelectSeq(ReaderOf(sound).trips, HasRow), TripRow),
         stop_times |-> MapSeq(ReaderOf(sound).stop_times, StopTimeRow)]

\* convert() before reader.read_all(), on a sound or a defective feed, for every
\* output format.
ConvertInit ==
    /\ pc = "files"
    /\ \E n \in 1 .. MaxTrips : \E f \in [1 .. n -> ConvertTripChoice] : files = ConvertFiles(f)
    /\ reader = ReaderOf(<<>>)
    /\ config \in [allow_partial_trips : {FALSE}, compression : {TRUE},
                     format : {"binary", "json", "both"}, debug_json : BOOLEAN,
                     split_by_periods : {FALSE}, mode : {"auto"}]
    /\ report = NoReport
    /\ routes = <<>>
    /\ stops = <<>>
    /\ index = NoIndex
    /\ out = NoOutput
    /\ RaptorIdle
    /\ CodecIdle
    /\ PeriodIdle
    /\ ArtifactIdle

ConvertNext ==
    \/ ReadAll
    \/ Validate
    \/ BuildRoutes
    \/ BuildAndSortTrips
    \/ BuildStopsAndIndex
    \/ WriteOutput

ConvertSpec == ConvertInit /\ [][ConvertNext]_vars

\* ================================================================ the period split
\* ------------------------------------------------------------ calendar.txt
\* service_id values: 31 stands for an ID whose text matches the school pattern of
\* the Lyon mode ("-042AM-"), 32 for one that matches its vacation pattern
\* ("-042AV-"), 33 for one that matches neither.
ServiceIdsTxt == {31, 32, 33}

SchoolPatternIds == {31}

VacationPatternIds == {32}

\* The text of a service_id, as it names a period directory.
ServiceIdText(service_id) ==
    IF service_id = 31 THEN "s-042AM-1" ELSE IF service_id = 32 THEN "s-042AV-1" ELSE "s-plain"

\* Weekly patterns, Monday first, 1 for an active day.
WeekdayPattern == <<1, 1, 1, 1, 1, 0, 0>>

SaturdayPattern == <<0, 0, 0, 0, 0, 1, 0>>

SundayPattern == <<0, 0, 0, 0, 0, 0, 1>>

WeekendPattern == <<0, 0, 0, 0, 0, 1, 1>>

AllWeekPattern == <<1, 1, 1, 1, 1, 1, 1>>

MondayToSaturdayPattern == <<1, 1, 1, 1, 1, 1, 0>>

\* The patterns the calendar.txt rows of the feeds carry.
CalendarPatterns == {WeekdayPattern, SaturdayPattern, MondayToSaturdayPattern}

\* start_date values (YYYYMMDD; 0 stands for an empty column).
StartDates == {0, 20250701, 20250901}

\* ------------------------------------------------------------ analyze_service_periods
\* patterns[pattern]: the service_ids of the calendar rows with that pattern, in
\* file order.
ServicesOfPattern(rd, pattern) ==
    LET HasPattern(cal) == cal.pattern = pattern
        ServiceId(cal) == cal.service_id
    IN  MapSeq(SelectSeq(rd.calendar, HasPattern), ServiceId)

NamedPatterns ==
    << [pattern |-> WeekdayPattern, name |-> "weekday"],
       [pattern |-> SaturdayPattern, name |-> "saturday"],
       [pattern |-> SundayPattern, name |-> "sunday"],
       [pattern |-> WeekendPattern, name |-> "weekend"],
       [pattern |-> AllWeekPattern, name |-> "daily"] >>

CustomNames == <<"custom_1", "custom_2", "custom_3">>

\* sorted(patterns.items()): the remaining patterns in tuple order.
RECURSIVE SortedPatterns(_)
SortedPatterns(S) ==
    IF S = {} THEN <<>>
    ELSE LET m == CHOOSE x \in S : \A y \in S \ {x} : TupleLess(x, y)
         IN  <<m>> \o SortedPatterns(S \ {m})

analyze_service_periods(rd) ==
    LET present == {cal.pattern : cal \in Range(rd.calendar)}
        IsPresent(np) == np.pattern \in present
        NamedPeriod(np) == [name |-> np.name, service_ids |-> ServicesOfPattern(rd, np.pattern)]
        named == MapSeq(SelectSeq(NamedPatterns, IsPresent), NamedPeriod)
        remaining == SortedPatterns(present \ {np.pattern : np \in Range(NamedPatterns)})
        custom == [idx \in DOMAIN remaining |->
                     [name |-> CustomNames[idx],
                      service_ids |-> ServicesOfPattern(rd, remaining[idx])]]
        services_from_dates == SortedSeq({cd.service_id : cd \in Range(rd.calendar_dates)})
        ByService(service_id) ==
            [name |-> ServiceIdText(service_id), service_ids |-> <<service_id>>]
    IN  IF rd.calendar = <<>> /\ rd.calendar_dates = <<>> THEN <<>>
        ELSE IF named \o custom # <<>> THEN named \o custom
        ELSE MapSeq(services_from_dates, ByService)

\* ------------------------------------------------------------ analyze_lyon_periods
\* route_short_name values that mark a school-only (JD) route.
JDNames == {"JD12"}

analyze_lyon_periods(rd) ==
    LET jd_routes == {r.route_id : r \in {x \in Range(rd.routes) : x.route_short_name \in JDNames}}
        service_to_routes(service_id) ==
            {t.route_id : t \in {u \in Range(rd.trips) : u.service_id = service_id}}
        is_jd_only(cal) ==
            /\ service_to_routes(cal.service_id) # {}
            /\ service_to_routes(cal.service_id) \subseteq jd_routes
        has_weekday(cal) == \E d \in 1 .. 5 : cal.pattern[d] = 1
        month(cal) == (cal.start_date \div 100) % 100
        day(cal) == cal.start_date % 100
        matched(cal) ==
            cal.service_id \in SchoolPatternIds \/ cal.service_id \in VacationPatternIds
        fallback(cal) == has_weekday(cal) /\ ~matched(cal) /\ cal.start_date # 0
        in_vacation(cal) == month(cal) \in {7, 8} \/ (month(cal) = 12 /\ day(cal) > 20)
        is_vacation_service(cal) ==
            cal.service_id \in VacationPatternIds \/ (fallback(cal) /\ in_vacation(cal))
        is_school_service(cal) ==
            cal.service_id \in SchoolPatternIds \/ (fallback(cal) /\ ~in_vacation(cal))
        cals == Range(rd.calendar)
        school_on_weekdays ==
            {cal.service_id : cal \in {c \in cals :
                has_weekday(c) /\ (is_jd_only(c) \/ ~is_vacation_service(c))}}
        school_off_weekdays ==
            {cal.service_id : cal \in {c \in cals :
                /\ has_weekday(c) /\ ~is_jd_only(c)
                /\ (is_vacation_service(c) \/ ~is_school_service(c))}}
        saturdays == {cal.service_id : cal \in {c \in cals : c.pattern[6] = 1}}
        sundays == {cal.service_id : cal \in {c \in cals : c.pattern[7] = 1}}
        Period(name, services) ==
            IF services = {} THEN <<>>
            ELSE << [name |-> name, service_ids |-> SortedSeq(services)] >>
    IN  IF rd.calendar = <<>> THEN <<>>
        ELSE Period("school_on_weekdays", school_on_weekdays)
             \o Period("school_off_weekdays", school_off_weekdays)
             \o Period("saturday", saturdays)
             \o Period("sunday", sundays)

\* ------------------------------------------------------------ the trips of a period
get_trips_for_period(rd, period) ==
    {t.trip_id : t \in {u \in Range(rd.trips) : u.service_id \in Range(period.service_ids)}}

\* The filter with the routes that have no trip in the period kept.
filter_routes_by_trips_KeepEmpty(rts, period_trip_ids) ==
    LET InPeriod(trip) == trip.trip_id_gtfs \in period_trip_ids
        Filtered(route) == [route EXCEPT !.trips = SelectSeq(route.trips, InPeriod)]
    IN  MapSeq(rts, Filtered)

\* _filter_routes_by_trips: copies of the routes with a trip in the period, each
\* with its trips of the period in the order of the global list.
filter_routes_by_trips(rts, period_trip_ids) ==
    LET InPeriod(trip) == trip.trip_id_gtfs \in period_trip_ids
        Filtered(route) == [route EXCEPT !.trips = SelectSeq(route.trips, InPeriod)]
        HasTrips(route) == route.trips # <<>>
    IN  SelectSeq(MapSeq(rts, Filtered), HasTrips)

\* ------------------------------------------------------------ convert(), split by periods
\* One trip of the feed: its service_id and its direction on route 21.
PeriodTripChoice == [service_id : ServiceIdsTxt, direction_id : {0, 1}]

\* The calendar.txt rows a service may have: none or one.
CalendarRowsOf(service_id) ==
    {<<>>} \cup
    { << [service_id |-> service_id, pattern |-> p, start_date |-> d] >> :
        p \in IF service_id = 32 THEN {WeekdayPattern}
              ELSE IF service_id = 31 THEN {WeekdayPattern, MondayToSaturdayPattern}
              ELSE CalendarPatterns,
        d \in IF service_id = 33 THEN StartDates ELSE {20250901} }

\* GTFSReader after read_all() on a feed with calendar data.
PeriodReaderOf(f, cal, dated, short_name) ==
    LET sound == [i \in DOMAIN f |->
                    [route_id |-> 21, direction_id |-> f[i].direction_id,
                     pattern |-> <<11, 12, 13>>, start |-> i - 1]]
        base == ReaderOf(sound)
    IN  [base EXCEPT
            !.trips = [i \in DOMAIN base.trips |->
                         base.trips[i] @@ [service_id |-> f[i].service_id]],
            !.routes = [i \in DOMAIN base.routes |->
                          base.routes[i] @@
                          [route_short_name |-> IF base.routes[i].route_id = 21
                                                THEN short_name ELSE "C3"]]]
        @@ [calendar |-> cal,
            calendar_dates |-> [i \in DOMAIN dated |->
                                  [service_id |-> dated[i], exception_type |-> 1]]]

PeriodInit ==
    /\ pc = "read"
    /\ \E n \in 1 .. MaxTrips : \E f \in [1 .. n -> PeriodTripChoice] :
       \E c1 \in CalendarRowsOf(31), c2 \in CalendarRowsOf(32), c3 \in CalendarRowsOf(33) :
       \E dated \in {<<>>, <<33, 31, 32>>}, short_name \in {"JD12", "C1"} :
          reader = PeriodReaderOf(f, c3 \o c1 \o c2, dated, short_name)
    /\ files = FilesOf(reader)
    /\ config \in [allow_partial_trips : {FALSE}, compression : {TRUE},
                     format : {"binary"}, debug_json : {FALSE},
                     split_by_periods : {TRUE}, mode : {"auto", "lyon"}]
    /\ report = NoReport
    /\ routes = <<>>
    /\ stops = <<>>
    /\ index = NoIndex
    /\ out = NoOutput
    /\ RaptorIdle
    /\ CodecIdle
    /\ PeriodIdle
    /\ ArtifactIdle

\* convert(), lines 60-73: the periods of the mode's analyzer.
AnalyzePeriods ==
    /\ pc = "validated"
    /\ config.split_by_periods
    /\ periods' = IF config.mode = "lyon" THEN analyze_lyon_periods(reader)
                  ELSE analyze_service_periods(reader)
    /\ pc' = "analyzed"
    /\ UNCHANGED <<files, reader, config, report, routes, stops, index, out, period_outputs>>
    /\ UNCHANGED artifact_vars
    /\ UNCHANGED raptor_vars
    /\ UNCHANGED codec_vars

\* convert(), one turn of the loop over the periods: get_trips_for_period,
\* _filter_routes_by_trips and _write_period_output into the period's directory.
WritePeriodOutput ==
    /\ pc = "trips"
    /\ Len(period_outputs) < Len(periods)
    /\ LET period == periods[Len(period_outputs) + 1]
           filtered_routes == filter_routes_by_trips(routes, get_trips_for_period(reader, period))
           period_stops == build_stops(reader, filtered_routes)
           written == [routes_bin |-> [i \in DOMAIN filtered_routes |->
                                         write_route(filtered_routes[i], config.compression)],
                       stats |-> ManifestStats(filtered_routes, period_stops),
                       written |-> FilesWritten(config) \o <<"manifest.json">>,
                       manifest_outputs |-> Range(FilesWritten(config))]
       IN  /\ stops' = period_stops
           /\ index' = build_network_index(filtered_routes, period_stops)
           /\ out' = written
           /\ period_outputs' = Append(period_outputs,
                                       [name |-> period.name, routes |-> filtered_routes,
                                        out |-> written])
    /\ pc' = IF Len(period_outputs) + 1 = Len(periods) THEN "written" ELSE "trips"
    /\ UNCHANGED <<files, reader, config, report, routes, periods>>
    /\ UNCHANGED artifact_vars
    /\ UNCHANGED raptor_vars
    /\ UNCHANGED codec_vars

PeriodNext ==
    \/ Validate
    \/ AnalyzePeriods
    \/ BuildRoutes
    \/ BuildAndSortTrips
    \/ WritePeriodOutput
    \/ BuildStopsAndIndex
    \/ WriteOutput

PeriodSpec == PeriodInit /\ [][PeriodNext]_vars

\* ================================================================ raptor()
\* ------------------------------------------------------------ the loaded network
\* Number of stops of the loaded network: stops 0 .. NumQStops - 1.
NumQStops == 4

\* Largest max_rounds of a query.
MaxRounds == 2

QStops == 0 .. (NumQStops - 1)

\* Canonical patterns the two routes of the network may have.
QPatterns0 == { <<0, 3, 1>>, <<0, 1>> }

QPatterns1 == { <<1, 2, 3>>, <<3, 2>>, <<1, 2>> }

\* First arrival times of the trips of a route: one or two trips.
QStartSets0 == { {0}, {1}, {0, 3} }

QStartSets1 == { {0}, {3}, {0, 3}, {1, 3} }

\* Transfer lists (source stop, target stop, walk time) the network may carry;
\* walk_time is a signed value in stops.bin.
QTransferSets ==
    { {},
      {<<1, 2, 0>>}, {<<1, 2, 1>>}, {<<3, 2, 1>>},
      {<<3, 1, 0>>, <<1, 2, 0>>},
      {<<3, 1, 1>>, <<1, 3, 1>>},
      {<<1, 1, 0 - 1>>},
      {<<1, 3, 0>>, <<3, 1, 0 - 2>>} }

\* The Route loaded for index r: trips in ascending order of their first time, every
\* trip one time unit from stop to stop.
QRoute(r, pattern, starts) ==
    [route_id |-> r,
     stop_ids |-> pattern,
     trips |-> [j \in 1 .. Cardinality(starts) |->
                  [trip_id |-> 10 * r + j,
                   arrival_times |-> [i \in DOMAIN pattern |-> SortedSeq(starts)[j] + i - 1]]]]

\* Stop.transfers of every stop: (target, walk_time) pairs in ascending target order.
RECURSIVE TransferList(_)
TransferList(S) ==
    IF S = {} THEN <<>>
    ELSE LET t == CHOOSE x \in S : \A y \in S : x[2] <= y[2]
         IN  <<[target |-> t[2], walk_time |-> t[3]]>> \o TransferList(S \ {t})

QNetwork(p0, s0, p1, s1, ts) ==
    [routes |-> (0 :> QRoute(0, p0, s0)) @@ (1 :> QRoute(1, p1, s1)),
     transfers |-> [s \in QStops |-> TransferList({t \in ts : t[1] = s})]]

\* Stop.route_ids as load_stops fills it: the indices of the routes serving the stop.
RouteIdsOf(nw, s) == {r \in DOMAIN nw.routes : s \in Range(nw.routes[r].stop_ids)}

\* ------------------------------------------------------------ one round
NoParent == [kind |-> "none"]

\* The first trip of the route, in list order, that can be boarded at stop_idx:
\* its index in route.trips, 0 when there is none.
FirstCatchable(route, stop_idx, arrival) ==
    LET ok == {j \in DOMAIN route.trips :
                 /\ stop_idx <= Len(route.trips[j].arrival_times)
                 /\ route.trips[j].arrival_times[stop_idx] >= arrival}
    IN  IF ok = {} THEN 0 ELSE Min(ok)

\* Lines 275-289: the loop over the stops of the route that picks best_trip.
\* acc = [earliest_boarding_time, boarding_stop_idx, best_trip], best_trip = 0 for None.
RECURSIVE FindBoarding(_, _, _, _)
FindBoarding(route, tau_prev, stop_idx, acc) ==
    IF stop_idx > Len(route.stop_ids) THEN acc
    ELSE LET stop_id == route.stop_ids[stop_idx]
             j == IF tau_prev[stop_id] < INF
                  THEN FirstCatchable(route, stop_idx, tau_prev[stop_id]) ELSE 0
             better == /\ j # 0
                       /\ route.trips[j].arrival_times[stop_idx] < acc.earliest_boarding_time
         IN  FindBoarding(route, tau_prev, stop_idx + 1,
                 IF better
                 THEN [earliest_boarding_time |-> route.trips[j].arrival_times[stop_idx],
                       boarding_stop_idx |-> stop_idx, best_trip |-> j]
                 ELSE acc)

\* Lines 295-308: ride best_trip from the boarding stop to the end of the route.
\* st = [tau, parent, marked] of round k.
RECURSIVE Traverse(_, _, _, _, _)
Traverse(route_id, route, b, stop_idx, st) ==
    IF stop_idx > Len(route.stop_ids) THEN st
    ELSE LET stop_id == route.stop_ids[stop_idx]
             trip == route.trips[b.best_trip]
             improves == /\ stop_idx <= Len(trip.arrival_times)
                         /\ trip.arrival_times[stop_idx] < st.tau[stop_id]
         IN  Traverse(route_id, route, b, stop_idx + 1,
                 IF improves
                 THEN [tau |-> [st.tau EXCEPT ![stop_id] = trip.arrival_times[stop_idx]],
                       parent |-> [st.parent EXCEPT ![stop_id] =
                                      [kind |-> "transit",
                                       prev_stop |-> route.stop_ids[b.boarding_stop_idx],
                                       route_id |-> route_id,
                                       trip_id |-> trip.trip_id]],
                       marked |-> st.marked \cup {stop_id}]
                 ELSE st)

\* Lines 271-308 for one route of routes_to_scan.
scan_route(nw, route_id, tau_prev, st) ==
    LET route == nw.routes[route_id]
        b == FindBoarding(route, tau_prev, 1,
                 [earliest_boarding_time |-> INF, boarding_stop_idx |-> 0, best_trip |-> 0])
    IN  IF b.best_trip # 0 THEN Traverse(route_id, route, b, b.boarding_stop_idx, st) ELSE st

\* Lines 313-318 for one stop of list(marked[k]): its transfers, in list order.
RECURSIVE relax_transfers(_, _, _)
relax_transfers(stop_id, transfers, st) ==
    IF transfers = <<>> THEN st
    ELSE LET target_stop == Head(transfers).target
             arrival_time == st.tau[stop_id] + Head(transfers).walk_time
         IN  relax_transfers(stop_id, Tail(transfers),
                 IF arrival_time < st.tau[target_stop]
                 THEN [tau |-> [st.tau EXCEPT ![target_stop] = arrival_time],
                       parent |-> [st.parent EXCEPT ![target_stop] =
                                      [kind |-> "walk", prev_stop |-> stop_id]],
                       marked |-> st.marked \cup {target_stop}]
                 ELSE st)

\* Lines 320-326: the first round with the smallest tau[k][target]; 0 - 1 for None.
BestRound(t, target, max_rounds) ==
    LET best_time == Min({t[kk][target] : kk \in 0 .. max_rounds})
    IN  IF best_time = INF THEN 0 - 1
        ELSE Min({kk \in 0 .. max_rounds : t[kk][target] = best_time})

\* list.index: the first position of a stop in the pattern.
IndexOf(stop_ids, stop_id) == Min({i \in DOMAIN stop_ids : stop_ids[i] = stop_id}) - 1

Reverse(seq) == [i \in DOMAIN seq |-> seq[Len(seq) + 1 - i]]

\* ------------------------------------------------------------ raptor(): the call
PipelineIdle ==
    /\ files = NoFiles
    /\ pc = "idle"
    /\ reader = ReaderOf(<<>>)
    /\ config = [allow_partial_trips |-> FALSE, compression |-> TRUE,
                 format |-> "binary", debug_json |-> FALSE,
                 split_by_periods |-> FALSE, mode |-> "auto"]
    /\ report = NoReport
    /\ routes = <<>>
    /\ stops = <<>>
    /\ index = NoIndex
    /\ out = NoOutput

\* Lines 247-258: raptor() called on a loaded network, before the first round.
RaptorInit ==
    /\ PipelineIdle
    /\ \E p0 \in QPatterns0, s0 \in QStartSets0, p1 \in QPatterns1, s1 \in QStartSets1,
          ts \in QTransferSets :
          net = QNetwork(p0, s0, p1, s1, ts)
    /\ query \in [source : {0}, target : QStops, departure_time : {0},
                  max_rounds : 1 .. MaxRounds]
    /\ tau = [kk \in 0 .. query.max_rounds |->
                [s \in QStops |-> IF kk = 0 /\ s = query.source
                                  THEN query.departure_time ELSE INF]]
    /\ parent = [kk \in 0 .. query.max_rounds |-> [s \in QStops |-> NoParent]]
    /\ marked = [kk \in 0 .. query.max_rounds |-> IF kk = 0 THEN {query.source} ELSE {}]
    /\ k = 1
    /\ rpc = "round"
    /\ routes_to_scan = {}
    /\ foot_todo = {}
    /\ recon = NoRecon
    /\ result = "running"
    /\ CodecIdle
    /\ PeriodIdle
    /\ ArtifactIdle

RoundState(kk) == [tau |-> tau[kk], parent |-> parent[kk], marked |-> marked[kk]]

SetRound(st) ==
    /\ tau' = [tau EXCEPT ![k] = st.tau]
    /\ parent' = [parent EXCEPT ![k] = st.parent]
    /\ marked' = [marked EXCEPT ![k] = st.marked]

\* Lines 260-268: a round begins with the routes serving the stops marked in round k - 1.
BeginRound ==
    /\ rpc = "round"
    /\ k <= query.max_rounds
    /\ routes_to_scan' = UNION {RouteIdsOf(net, s) : s \in marked[k - 1]}
    /\ rpc' = "scan"
    /\ UNCHANGED <<net, query, k, tau, parent, marked, foot_todo, recon, result>>
    /\ UNCHANGED pipe_vars
    /\ UNCHANGED codec_vars
    /\ UNCHANGED period_vars
    /\ UNCHANGED artifact_vars

\* Lines 271-308: one iteration of "for route_id in routes_to_scan" (a set: any order).
ScanRoute ==
    /\ rpc = "scan"
    /\ \E route_id \in routes_to_scan :
          /\ SetRound(scan_route(net, route_id, tau[k - 1], RoundState(k)))
          /\ routes_to_scan' = routes_to_scan \ {route_id}
    /\ UNCHANGED <<net, query, rpc, k, foot_todo, recon, result>>
    /\ UNCHANGED pipe_vars
    /\ UNCHANGED codec_vars
    /\ UNCHANGED period_vars
    /\ UNCHANGED artifact_vars

\* Line 311: list(marked[k]) is taken when every route is scanned.
BeginFootpaths ==
    /\ rpc = "scan"
    /\ routes_to_scan = {}
    /\ foot_todo' = marked[k]
    /\ rpc' = "foot"
    /\ UNCHANGED <<net, query, k, tau, parent, marked, routes_to_scan, recon, result>>
    /\ UNCHANGED pipe_vars
    /\ UNCHANGED codec_vars
    /\ UNCHANGED period_vars
    /\ UNCHANGED artifact_vars

\* Lines 311-318: one iteration of "for stop_id in list(marked[k])" (any order).
RelaxFootpaths ==
    /\ rpc = "foot"
    /\ \E stop_id \in foot_todo :
          /\ SetRound(relax_transfers(stop_id, net.transfers[stop_id], RoundState(k)))
          /\ foot_todo' = foot_todo \ {stop_id}
    /\ UNCHANGED <<net, query, rpc, k, routes_to_scan, recon, result>>
    /\ UNCHANGED pipe_vars
    /\ UNCHANGED codec_vars
    /\ UNCHANGED period_vars
    /\ UNCHANGED artifact_vars

\* The round ends; the for loop goes on with k + 1.
EndRound ==
    /\ rpc = "foot"
    /\ foot_todo = {}
    /\ k' = k + 1
    /\ rpc' = "round"
    /\ UNCHANGED <<net, query, tau, parent, marked, routes_to_scan, foot_todo, recon, result>>
    /\ UNCHANGED pipe_vars
    /\ UNCHANGED codec_vars
    /\ UNCHANGED period_vars
    /\ UNCHANGED artifact_vars

\* Lines 320-334: after the last round, the best round; None when the target is not reached.
FindBestRound ==
    /\ rpc = "round"
    /\ k > query.max_rounds
    /\ LET best_round == BestRound(tau, query.target, query.max_rounds)
       IN  IF best_round < 0
           THEN /\ result' = "None"
                /\ rpc' = "done"
                /\ recon' = recon
           ELSE /\ result' = result
                /\ rpc' = "reconstruct"
                /\ recon' = [best_round |-> best_round,
                             best_time |-> tau[best_round][query.target],
                             current_stop |-> query.target,
                             current_round |-> best_round,
                             journey |-> <<>>,
                             visited |-> {}]
    /\ UNCHANGED <<net, query, k, tau, parent, marked, routes_to_scan, foot_todo>>
    /\ UNCHANGED pipe_vars
    /\ UNCHANGED codec_vars
    /\ UNCHANGED period_vars
    /\ UNCHANGED artifact_vars

\* The condition of the while loop of line 336, with the break of line 339.
LoopContinues ==
    /\ recon.current_round > 0
    /\ recon.current_stop # query.source
    /\ parent[recon.current_round][recon.current_stop].kind # "none"

\* Lines 336-376: one iteration of the reconstruction loop.  tau and parent are not
\* written any more, so an iteration is a function of (current_round, current_stop):
\* the model follows the loop until it comes back to a pair it has already processed,
\* from where the program repeats the same iterations forever.
\* The arrival field of a walk leg is tau[current_round][current_stop], the value its
\* duration is computed from.
ReconstructStep ==
    /\ rpc = "reconstruct"
    /\ LoopContinues
    /\ <<recon.current_round, recon.current_stop>> \notin recon.visited
    /\ LET cr == recon.current_round
           cs == recon.current_stop
           parent_info == parent[cr][cs]
           prev_stop == parent_info.prev_stop
       IN  IF parent_info.kind = "walk"
           THEN recon' = [recon EXCEPT
                    !.journey = Append(@, [type |-> "walk", from_stop |-> prev_stop,
                                           to_stop |-> cs,
                                           duration |-> tau[cr][cs] - tau[cr][prev_stop],
                                           arrival |-> tau[cr][cs]]),
                    !.current_stop = prev_stop,
                    !.visited = @ \cup {<<cr, cs>>}]
           ELSE recon' = [recon EXCEPT
                    !.journey = Append(@, [type |-> "transit",
                                           route_id |-> parent_info.route_id,
                                           trip_id |-> parent_info.trip_id,
                                           from_stop |-> prev_stop, to_stop |-> cs,
                                           from_idx |-> IndexOf(net.routes[parent_info.route_id].stop_ids, prev_stop),
                                           to_idx |-> IndexOf(net.routes[parent_info.route_id].stop_ids, cs),
                                           arrival |-> tau[cr][cs]]),
                    !.current_stop = prev_stop,
                    !.current_round = cr - 1,
                    !.visited = @ \cup {<<cr, cs>>}]
    /\ UNCHANGED <<net, query, rpc, k, tau, parent, marked, routes_to_scan, foot_todo, result>>
    /\ UNCHANGED pipe_vars
    /\ UNCHANGED codec_vars
    /\ UNCHANGED period_vars
    /\ UNCHANGED artifact_vars

\* The return without journey.reverse().
ReturnJourney_NotReversed ==
    /\ rpc = "reconstruct"
    /\ ~LoopContinues
    /\ recon' = recon
    /\ result' = "journey"
    /\ rpc' = "done"
    /\ UNCHANGED <<net, query, k, tau, parent, marked, routes_to_scan, foot_todo>>
    /\ UNCHANGED pipe_vars
    /\ UNCHANGED codec_vars
    /\ UNCHANGED period_vars
    /\ UNCHANGED artifact_vars

\* Lines 378-379: the loop is left, the journey is reversed and returned.
ReturnJourney ==
    /\ rpc = "reconstruct"
    /\ ~LoopContinues
    /\ recon' = [recon EXCEPT !.journey = Reverse(@)]
    /\ result' = "journey"
    /\ rpc' = "done"
    /\ UNCHANGED <<net, query, k, tau, parent, marked, routes_to_scan, foot_todo>>
    /\ UNCHANGED pipe_vars
    /\ UNCHANGED codec_vars
    /\ UNCHANGED period_vars
    /\ UNCHANGED artifact_vars

RaptorNext ==
    \/ BeginRound
    \/ ScanRoute
    \/ BeginFootpaths
    \/ RelaxFootpaths
    \/ EndRound
    \/ FindBestRound
    \/ ReconstructStep
    \/ ReturnJourney

RaptorSpec == RaptorInit /\ [][RaptorNext]_vars

\* ================================================================ the artifacts
\* ------------------------------------------------------------ compression
\* Largest length of a time list handed to encode_times / decode_times.
MaxTimes == 3

\* The integers of a time list (or of a list of deltas).
TimeValues == {0 - 1, 0, 1, 3}

\* The loop of decode_times: decoded[-1] + encoded[i] for i = 1 .. len - 1 (i is 1-based here).
RECURSIVE decode_loop(_, _, _)
decode_loop(encoded, i, decoded) ==
    IF i > Len(encoded) THEN decoded
    ELSE decode_loop(encoded, i + 1, Append(decoded, decoded[Len(decoded)] + encoded[i]))

decode_times(encoded) ==
    IF encoded = <<>> THEN <<>> ELSE decode_loop(encoded, 2, <<encoded[1]>>)

\* A list of integers, before either function is applied to it.
CompressionInit ==
    /\ PipelineIdle
    /\ RaptorIdle
    /\ PeriodIdle
    /\ ArtifactIdle
    /\ disk = NoDisk
    /\ loaded = NoLoaded
    /\ \E n \in 0 .. MaxTimes : \E t \in [1 .. n -> TimeValues] :
          codec = [step |-> "input", input |-> t, encoded |-> <<>>, decoded |-> <<>>]

\* encoded = encode_times(input)
EncodeInput ==
    /\ codec.step = "input"
    /\ codec' = [codec EXCEPT !.step = "encoded", !.encoded = encode_times(codec.input)]
    /\ UNCHANGED <<pipe_vars, raptor_vars, period_vars, artifact_vars, disk, loaded>>

\* decoded = decode_times(encoded)
DecodeEncoded ==
    /\ codec.step = "encoded"
    /\ codec' = [codec EXCEPT !.step = "round_trip", !.decoded = decode_times(codec.encoded)]
    /\ UNCHANGED <<pipe_vars, raptor_vars, period_vars, artifact_vars, disk, loaded>>

\* decoded = decode_times(input): the input is taken as a list of deltas.
DecodeInput ==
    /\ codec.step = "input"
    /\ codec' = [codec EXCEPT !.step = "decoded", !.decoded = decode_times(codec.input)]
    /\ UNCHANGED <<pipe_vars, raptor_vars, period_vars, artifact_vars, disk, loaded>>

\* encoded = encode_times(decoded)
EncodeDecoded ==
    /\ codec.step = "decoded"
    /\ codec' = [codec EXCEPT !.step = "back", !.encoded = encode_times(codec.decoded)]
    /\ UNCHANGED <<pipe_vars, raptor_vars, period_vars, artifact_vars, disk, loaded>>

CompressionNext ==
    \/ EncodeInput
    \/ DecodeEncoded
    \/ DecodeInput
    \/ EncodeDecoded

CompressionSpec == CompressionInit /\ [][CompressionNext]_vars

\* ------------------------------------------------------------ bytes
\* struct.pack("<H", v), ("<I", v), ("<i", v): little-endian bytes.  For a negative v
\* the floor division and the modulus give the bytes of the two's complement.
write_uint16(v) == <<v % 256, (v \div 256) % 256>>

write_uint32(v) == <<v % 256, (v \div 256) % 256, (v \div 65536) % 256, (v \div 16777216) % 256>>

write_int32(v) == <<v % 256, (v \div 256) % 256, (v \div 65536) % 256, (v \div 16777216) % 256>>

\* struct.pack("<d", 0.0): the coordinates of the model's stops are all 0.0.
write_float64_zero == <<0, 0, 0, 0, 0, 0, 0, 0>>

\* write_string: the u16 length of the UTF-8 bytes, then the bytes.
write_string(encoded) == write_uint16(Len(encoded)) \o encoded

RECURSIVE Flatten(_)
Flatten(chunks) == IF chunks = <<>> THEN <<>> ELSE Head(chunks) \o Flatten(Tail(chunks))

\* The magics "RRTS" and "RSTS" as ASCII bytes.
RoutesMagic == <<82, 82, 84, 83>>

StopsMagic == <<82, 83, 84, 83>>

\* The schema_version write_binary_files is called with.
SchemaVersion == 1

\* write_header: magic, schema version, record count.
write_header(magic, schema_version, count) ==
    magic \o write_uint16(schema_version) \o write_uint32(count)

\* RoutesWriter.write_route: the bytes of one route record.
write_route_bytes(route, compression) ==
    LET rec == write_route(route, compression)
        TripBytes(trip) == write_uint32(trip.trip_id_internal)
                               \o Flatten(MapSeq(trip.times, write_int32))
    IN  write_uint32(rec.route_id_internal)
            \o write_string(route.route_name)
            \o write_uint32(rec.stop_count)
            \o write_uint32(rec.trip_count)
            \o Flatten(MapSeq(rec.stop_ids, write_uint32))
            \o Flatten(MapSeq(rec.trips, TripBytes))

\* StopsWriter.write_stop: the bytes of one stop record.
write_stop_bytes(stop) ==
    LET TransferBytes(t) == write_uint32(t[1]) \o write_int32(t[2])
    IN  write_uint32(stop.stop_id_internal)
            \o write_string(stop.name)
            \o write_float64_zero \o write_float64_zero
            \o write_uint32(Len(stop.route_ids))
            \o Flatten(MapSeq(stop.route_ids, write_uint32))
            \o write_uint32(Len(stop.transfers))
            \o Flatten(MapSeq(stop.transfers, TransferBytes))

\* dict[key] = value
DictSet(d, key, value) == [x \in DOMAIN d \cup {key} |-> IF x = key THEN value ELSE d[x]]

\* The loop of write_binary_files over the routes: w = [bytes, offsets]; a record
\* starts at writer.offset = len(bytes) and its offset is stored under route_id_internal.
RECURSIVE write_routes_loop(_, _, _, _)
write_routes_loop(rts, i, compression, w) ==
    IF i > Len(rts) THEN w
    ELSE write_routes_loop(rts, i + 1, compression,
             [bytes |-> w.bytes \o write_route_bytes(rts[i], compression),
              offsets |-> DictSet(w.offsets, rts[i].route_id_internal, Len(w.bytes))])

RECURSIVE write_stops_loop(_, _, _)
write_stops_loop(sts, i, w) ==
    IF i > Len(sts) THEN w
    ELSE write_stops_loop(sts, i + 1,
             [bytes |-> w.bytes \o write_stop_bytes(sts[i]),
              offsets |-> DictSet(w.offsets, sts[i].stop_id_internal, Len(w.bytes))])

\* write_binary_files: routes.bin, stops.bin and the two offset dictionaries of the index.
write_binary_files(rts, sts, schema_version, compression) ==
    LET r == write_routes_loop(rts, 1, compression,
                 [bytes |-> write_header(RoutesMagic, schema_version, Len(rts)),
                  offsets |-> <<>>])
        t == write_stops_loop(sts, 1,
                 [bytes |-> write_header(StopsMagic, schema_version, Len(sts)),
                  offsets |-> <<>>])
    IN  [routes_bin |-> r.bytes, stops_bin |-> t.bytes,
         route_offsets |-> r.offsets, stop_offsets |-> t.offsets]

\* ------------------------------------------------------------ load_routes
\* struct.unpack("<I", ...) / ("<i", ...) of the four bytes after position pos (0-based).
\* An unsigned value of 2^31 or more is represented by HugeUint32: as a count it is
\* larger than every file, as an ID it is different from every ID of the model.
HugeUint32 == 2147483647

read_uint32(b, pos) ==
    IF b[pos + 4] >= 128 THEN HugeUint32
    ELSE b[pos + 1] + 256 * b[pos + 2] + 65536 * b[pos + 3] + 16777216 * b[pos + 4]

read_int32(b, pos) ==
    b[pos + 1] + 256 * b[pos + 2] + 65536 * b[pos + 3]
        + 16777216 * (IF b[pos + 4] >= 128 THEN b[pos + 4] - 256 ELSE b[pos + 4])

\* BinaryReader.read_bytes raises ValueError on a short read; times_encoded[0] raises
\* IndexError on a trip of a route without stops.  Either way load_routes returns nothing.
LoadFailed == [ok |-> FALSE, routes |-> <<>>]

\* The loop over the trips of one route record: r = [ok, pos, trips].
RECURSIVE load_trips_loop(_, _, _, _)
load_trips_loop(b, num_stops, remaining, r) ==
    IF remaining = 0 \/ ~r.ok THEN r
    ELSE IF r.pos + 4 + 4 * num_stops > Len(b) \/ num_stops = 0
         THEN [ok |-> FALSE, pos |-> r.pos, trips |-> r.trips]
         ELSE LET times_encoded == [i \in 1 .. num_stops |-> read_int32(b, r.pos + 4 * i)]
                  trip == [trip_id |-> read_uint32(b, r.pos),
                           arrival_times |-> decode_loop(times_encoded, 2, <<times_encoded[1]>>)]
              IN  load_trips_loop(b, num_stops, remaining - 1,
                      [ok |-> TRUE, pos |-> r.pos + 4 + 4 * num_stops,
                       trips |-> Append(r.trips, trip)])

\* The loop over the route records: r = [ok, pos, routes].
RECURSIVE load_routes_loop(_, _, _)
load_routes_loop(b, remaining, r) ==
    IF remaining = 0 \/ ~r.ok THEN r
    ELSE IF r.pos + 12 > Len(b) THEN [ok |-> FALSE, pos |-> r.pos, routes |-> r.routes]
    ELSE LET route_id_internal == read_uint32(b, r.pos)
             num_stops == read_uint32(b, r.pos + 4)
             num_trips == read_uint32(b, r.pos + 8)
             stops_end == r.pos + 12 + 4 * num_stops
         IN  IF num_stops > Len(b) \/ stops_end > Len(b) THEN [ok |-> FALSE, pos |-> r.pos, routes |-> r.routes]
             ELSE LET stop_ids == [i \in 1 .. num_stops |-> read_uint32(b, r.pos + 8 + 4 * i)]
                      t == load_trips_loop(b, num_stops, num_trips,
                               [ok |-> TRUE, pos |-> stops_end, trips |-> <<>>])
                  IN  load_routes_loop(b, remaining - 1,
                          [ok |-> t.ok, pos |-> t.pos,
                           routes |-> Append(r.routes,
                               [route_id |-> route_id_internal, stop_ids |-> stop_ids,
                                trips |-> t.trips])])

\* load_routes: the routes dictionary, keyed by route_idx = position, as a list.
load_routes(b) ==
    IF Len(b) < 10 \/ SubSeq(b, 1, 4) # RoutesMagic THEN LoadFailed
    ELSE LET r == load_routes_loop(b, read_uint32(b, 6), [ok |-> TRUE, pos |-> 10, routes |-> <<>>])
         IN  IF r.ok THEN [ok |-> TRUE, routes |-> r.routes] ELSE LoadFailed

\* ------------------------------------------------------------ write, then load
\* Largest number of routes handed to write_binary_files.
MaxBinRoutes == 2

\* route_name of a route as UTF-8 bytes: "" or "A".
BinRouteNames == { <<>>, <<65>> }

\* Canonical pattern and trips of a route: no partial trip, times with a negative delta.
BinRouteShapes ==
    { [stop_ids |-> <<0, 1>>,
       trips |-> <<[trip_id_internal |-> 0, trip_id_gtfs |-> 101,
                    arrival_times |-> <<5, 7>>, is_partial |-> FALSE]>>],
      [stop_ids |-> <<1, 0, 2>>,
       trips |-> <<[trip_id_internal |-> 1, trip_id_gtfs |-> 102,
                    arrival_times |-> <<3, 2, 9>>, is_partial |-> FALSE],
                   [trip_id_internal |-> 2, trip_id_gtfs |-> 103,
                    arrival_times |-> <<4, 6, 300>>, is_partial |-> FALSE]>>],
      [stop_ids |-> <<0, 1>>, trips |-> <<>>] }

\* A RouteData: build_routes gives both directions of a GTFS route the same
\* route_id_internal, so two routes of a list may carry the same ID.
BinRouteChoice == [route_id_internal : {0, 1}, route_name : BinRouteNames, shape : BinRouteShapes]

BinRoute(c) ==
    [route_id_internal |-> c.route_id_internal,
     route_id_gtfs |-> 21 + c.route_id_internal,
     route_name |-> c.route_name,
     stop_ids |-> c.shape.stop_ids,
     trips |-> c.shape.trips]

\* The StopData list of three stops: with or without names and transfers.
BinStops(rts, named) ==
    [i \in 1 .. 3 |->
        [stop_id_internal |-> i - 1,
         stop_id_gtfs |-> 10 + i,
         name |-> IF named THEN SubSeq(<<97, 98>>, 1, i - 1) ELSE <<>>,
         route_ids |-> RouteIdsAt(rts, i - 1),
         transfers |-> IF named /\ i = 1 THEN << <<1, 60>>, <<2, 0 - 5>> >> ELSE <<>>]]

\* write_binary_files is about to be called on routes, stops and a fresh index.
BinaryInit ==
    /\ files = NoFiles
    /\ pc = "built"
    /\ reader = ReaderOf(<<>>)
    /\ config \in [allow_partial_trips : {FALSE}, compression : BOOLEAN,
                     format : {"binary"}, debug_json : {FALSE},
                     split_by_periods : {FALSE}, mode : {"auto"}]
    /\ report = NoReport
    /\ \E n \in 1 .. MaxBinRoutes : \E c \in [1 .. n -> BinRouteChoice] :
          routes = MapSeq(c, BinRoute)
    /\ \E named \in BOOLEAN : stops = BinStops(routes, named)
    /\ index = build_network_index(routes, stops)
    /\ out = NoOutput
    /\ RaptorIdle
    /\ CodecIdle
    /\ PeriodIdle
    /\ ArtifactIdle

\* write_binary_files(output_dir, routes, stops, index, SCHEMA_VERSION, config.compression)
WriteBinaryFiles ==
    /\ pc = "built"
    /\ LET w == write_binary_files(routes, stops, SchemaVersion, config.compression)
       IN  /\ disk' = [routes_bin |-> w.routes_bin, stops_bin |-> w.stops_bin]
           /\ index' = [index EXCEPT !.route_offsets = w.route_offsets,
                                     !.stop_offsets = w.stop_offsets]
    /\ pc' = "files_written"
    /\ UNCHANGED <<files, reader, config, report, routes, stops, out, loaded, codec>>
    /\ UNCHANGED period_vars
    /\ UNCHANGED artifact_vars
    /\ UNCHANGED raptor_vars

\* load_routes(routes.bin)
LoadRoutes ==
    /\ pc = "files_written"
    /\ loaded' = load_routes(disk.routes_bin)
    /\ pc' = "loaded"
    /\ UNCHANGED <<files, reader, config, report, routes, stops, index, out, disk, codec>>
    /\ UNCHANGED period_vars
    /\ UNCHANGED artifact_vars
    /\ UNCHANGED raptor_vars

BinaryNext ==
    \/ WriteBinaryFiles
    \/ LoadRoutes

BinarySpec == BinaryInit /\ [][BinaryNext]_vars

\* ================================================================ build_transfers
\* Largest number of rows of transfers.txt.
MaxTransferRows == 2

\* A row of transfers.txt: stop 99 is not in stops.txt.
TransferRows == [from_stop_id : {11, 12, 99}, to_stop_id : {11, 12, 13},
                 min_transfer_time : {20, 60}]

\* The stops lie on a line; a layout gives their positions in metres, and the
\* haversine distance of two stops is the distance of their positions.
StopLayouts == { <<0, 40, 1000>>, <<0, 0, 300>> }

haversine_distance(stop_a, stop_b) ==
    IF stop_a.metres >= stop_b.metres THEN stop_a.metres - stop_b.metres
    ELSE stop_b.metres - stop_a.metres

\* int(distance / speed_walk) with speed_walk = speed_num / 100 metres per second.
WalkTime(distance, speed_num) == (distance * 100) \div speed_num

\* Lines 26-38: the (to_stop_id, min_transfer_time) pairs appended, in row order, to
\* stops[from_stop_id] for the stop at list position pos.
ExplicitTransfers(sts, rows, pos) ==
    LET Known(id) == \E i \in DOMAIN sts : sts[i].stop_id_gtfs = id
        gtfs_to_internal(id) ==
            sts[CHOOSE i \in DOMAIN sts :
                    /\ sts[i].stop_id_gtfs = id
                    /\ \A j \in DOMAIN sts : sts[j].stop_id_gtfs = id => j <= i].stop_id_internal
        Mine(row) == /\ Known(row.from_stop_id)
                     /\ Known(row.to_stop_id)
                     /\ gtfs_to_internal(row.from_stop_id) = pos - 1
        Pair(row) == <<gtfs_to_internal(row.to_stop_id), row.min_transfer_time>>
    IN  MapSeq(SelectSeq(rows, Mine), Pair)

\* _generate_walking_transfers: what the double loop appends to the stop at position pos,
\* in the order of the appends (as stop_b of the earlier stops, then as stop_a).
GeneratedTransfers(sts, pos, speed_num, cutoff) ==
    LET Near(other) == /\ other # pos
                       /\ haversine_distance(sts[pos], sts[other]) <= cutoff
        Pair(other) == <<sts[other].stop_id_internal,
                         WalkTime(haversine_distance(sts[pos], sts[other]), speed_num)>>
    IN  MapSeq(SelectSeq([i \in DOMAIN sts |-> i], Near), Pair)

\* The deduplication with the first time of a target kept instead of the minimum.
DedupTransfers_KeepFirst(transfers) ==
    LET targets == {transfers[i][1] : i \in DOMAIN transfers}
        FirstTime(target) == transfers[Min({j \in DOMAIN transfers : transfers[j][1] = target})][2]
        Item(target) == <<target, FirstTime(target)>>
    IN  MapSeq(SortedSeq(targets), Item)

\* Lines 51-58: transfer_map keeps the minimum time per target; sorted(items()).
DedupTransfers(transfers) ==
    LET targets == {transfers[i][1] : i \in DOMAIN transfers}
        MinTime(target) == Min({transfers[i][2] : i \in {j \in DOMAIN transfers : transfers[j][1] = target}})
        Item(target) == <<target, MinTime(target)>>
    IN  MapSeq(SortedSeq(targets), Item)

build_transfers(rd, sts, gen_transfers, speed_num, cutoff) ==
    [pos \in DOMAIN sts |->
        [sts[pos] EXCEPT !.transfers =
            DedupTransfers(sts[pos].transfers
                \o ExplicitTransfers(sts, rd.transfers, pos)
                \o (IF gen_transfers THEN GeneratedTransfers(sts, pos, speed_num, cutoff)
                    ELSE <<>>))]]

\* The StopData list of build_stops, each stop with its position on the line.
TransferStops(layout) ==
    [i \in 1 .. NumStops |->
        [stop_id_internal |-> i - 1, stop_id_gtfs |-> 10 + i,
         metres |-> layout[((i - 1) % 3) + 1] + 2000 * ((i - 1) \div 3),
         route_ids |-> <<>>, transfers |-> <<>>]]

\* _write_period_output after build_stops, before build_transfers.
TransferInit ==
    /\ files = NoFiles
    /\ pc = "stops_built"
    /\ \E n \in 0 .. MaxTransferRows : \E rows \in [1 .. n -> TransferRows] :
          reader = ReaderOf(<<>>) @@ [transfers |-> rows]
    /\ config \in [allow_partial_trips : {FALSE}, compression : {TRUE},
                     format : {"binary"}, debug_json : {FALSE},
                     split_by_periods : {FALSE}, mode : {"auto"},
                   gen_transfers : BOOLEAN, speed_walk : {133}, transfer_cutoff : {500}]
    /\ report = NoReport
    /\ routes = <<>>
    /\ \E layout \in StopLayouts : stops = TransferStops(layout)
    /\ index = NoIndex
    /\ out = NoOutput
    /\ RaptorIdle
    /\ CodecIdle
    /\ PeriodIdle
    /\ ArtifactIdle

\* build_transfers(reader, stops, gen_transfers, speed_walk, transfer_cutoff)
BuildTransfers ==
    /\ pc = "stops_built"
    /\ stops' = build_transfers(reader, stops, config.gen_transfers, config.speed_walk,
                                config.transfer_cutoff)
    /\ pc' = "transfers_built"
    /\ UNCHANGED <<files, reader, config, report, routes, index, out>>
    /\ UNCHANGED raptor_vars
    /\ UNCHANGED codec_vars
    /\ UNCHANGED period_vars
    /\ UNCHANGED artifact_vars

TransferNext ==
    \/ BuildTransfers

TransferSpec == TransferInit /\ [][TransferNext]_vars

\* ================================================================ claims
\* ================================================================ validate()
\* ------------------------------------------------------------ the output directory
IndexMagic == <<82, 73, 68, 88>>

\* hashlib.sha256(content).hexdigest(): equal for equal contents, and taken to
\* differ for different contents.
sha256(content) == <<"sha256", content>>

\* What routes.bin, stops.bin and index.bin may hold: the header convert writes
\* (no record), the header of another schema version, the header with another
\* count, another file's magic, or the magic alone.
RoutesBinContents ==
    { write_header(RoutesMagic, SchemaVersion, 0),
      write_header(RoutesMagic, SchemaVersion + 1, 0),
      write_header(RoutesMagic, SchemaVersion, 1),
      write_header(StopsMagic, SchemaVersion, 0),
      RoutesMagic }

StopsBinContents ==
    { write_header(StopsMagic, SchemaVersion, 0),
      write_header(StopsMagic, SchemaVersion + 1, 0),
      write_header(RoutesMagic, SchemaVersion, 0) }

\* IndexWriter: magic, schema version, then the three empty tables.
IndexBinContents ==
    { IndexMagic \o write_uint16(SchemaVersion)
          \o write_uint32(0) \o write_uint32(0) \o write_uint32(0),
      IndexMagic \o write_uint16(SchemaVersion + 1)
          \o write_uint32(0) \o write_uint32(0) \o write_uint32(0),
      IndexMagic }

\* The files a manifest may list, and the debug file among them.
ListedFiles == {"routes.bin", "stops.bin", "index.bin", "routes.json"}

RoutesJsonContents == { <<91, 93>> }

ContentsOf(filename) ==
    IF filename = "routes.bin" THEN RoutesBinContents
    ELSE IF filename = "stops.bin" THEN StopsBinContents
    ELSE IF filename = "index.bin" THEN IndexBinContents
    ELSE RoutesJsonContents

\* What convert wrote for a feed with no route and no stop.
WrittenContent(filename) ==
    IF filename = "routes.bin" THEN write_header(RoutesMagic, SchemaVersion, 0)
    ELSE IF filename = "stops.bin" THEN write_header(StopsMagic, SchemaVersion, 0)
    ELSE IF filename = "index.bin"
         THEN IndexMagic \o write_uint16(SchemaVersion)
                  \o write_uint32(0) \o write_uint32(0) \o write_uint32(0)
    ELSE <<91, 93>>

\* A directory: each file absent or with one of its contents.
Directories ==
    UNION { [present -> UNION {ContentsOf(f) : f \in ListedFiles}] : present \in SUBSET ListedFiles }

WellFormed(dir) == \A f \in DOMAIN dir : dir[f] \in ContentsOf(f)

NoManifest == [exists |-> FALSE, json |-> FALSE, outputs |-> <<>>]

\* manifest.json: absent, not JSON, or an object whose outputs list some files, each
\* with the digest of the file as it stands (of the written header if the file is
\* gone) or with another digest.
ManifestOutputs(dir) ==
    LET Recorded(f, how) ==
            IF how = "other" THEN sha256(<<0>>)
            ELSE IF f \in DOMAIN dir THEN sha256(dir[f])
            ELSE sha256(WrittenContent(f))
    IN  UNION { { [f \in listed |-> Recorded(f, how[f])] :
                    how \in [listed -> {"as_on_disk", "other"}] } :
                listed \in SUBSET ListedFiles }

\* ------------------------------------------------------------ validate_binary_files
\* One header: read_bytes(4), the magic test, read_uint16 and, for routes.bin and
\* stops.bin, read_uint32; a short read or a wrong magic raises ValueError.
HeaderReads(content, magic, header_len) ==
    /\ Len(content) >= 4
    /\ SubSeq(content, 1, 4) = magic
    /\ Len(content) >= header_len

validate_binary_files(dir) ==
    /\ HeaderReads(dir["routes.bin"], RoutesMagic, 10)
    /\ HeaderReads(dir["stops.bin"], StopsMagic, 10)
    /\ HeaderReads(dir["index.bin"], IndexMagic, 6)

\* ------------------------------------------------------------ validate
RequiredFiles == {"routes.bin", "stops.bin", "index.bin", "manifest.json"}

\* validate(output_path): the errors as (kind, file name) pairs.
validate(dir) ==
    LET manifest == dir.manifest
        exists(f) == IF f = "manifest.json" THEN manifest.exists ELSE f \in DOMAIN dir.files
        missing == {<<"Required file missing", f>> : f \in {g \in RequiredFiles : ~exists(g)}}
        mismatches ==
            {<<"Checksum mismatch", f>> : f \in
                {g \in DOMAIN manifest.outputs :
                    exists(g) /\ sha256(dir.files[g]) # manifest.outputs[g]}}
        errors ==
            IF missing # {} THEN missing
            ELSE IF ~validate_binary_files(dir.files) THEN {<<"Binary validation failed", "">>}
            ELSE IF ~manifest.json THEN {<<"Manifest validation failed", "manifest.json">>}
            ELSE mismatches
    IN  [valid |-> errors = {}, errors |-> errors, warnings |-> {}]

\* validate() is about to be called on a directory.
ValidateInit ==
    /\ PipelineIdle
    /\ RaptorIdle
    /\ CodecIdle
    /\ PeriodIdle
    /\ checked = NotChecked
    /\ runs = <<>>
    /\ \E dir \in Directories :
          /\ WellFormed(dir)
          /\ \/ outdir = [files |-> dir, manifest |-> NoManifest]
             \/ outdir = [files |-> dir,
                          manifest |-> [exists |-> TRUE, json |-> FALSE, outputs |-> <<>>]]
             \/ \E outputs \in ManifestOutputs(dir) :
                   outdir = [files |-> dir,
                             manifest |-> [exists |-> TRUE, json |-> TRUE, outputs |-> outputs]]

ValidateOutput ==
    /\ pc = "idle"
    /\ checked = NotChecked
    /\ checked' = validate(outdir)
    /\ pc' = "checked"
    /\ UNCHANGED <<files, reader, config, report, routes, stops, index, out, outdir, runs>>
    /\ UNCHANGED raptor_vars
    /\ UNCHANGED codec_vars
    /\ UNCHANGED period_vars

\* ------------------------------------------------------------ load_stops, load_index
read_uint16(b, pos) == b[pos + 1] + 256 * b[pos + 2]

\* [reader.read_uint32() for _ in range(n)] from position pos.
read_uint32_list(b, pos, n) == [i \in 1 .. n |-> read_uint32(b, pos + 4 * (i - 1))]

\* The loop over the stop records: r = [ok, pos, stops]; a short read raises.
RECURSIVE load_stops_loop(_, _, _, _)
load_stops_loop(b, route_id_to_idx, remaining, r) ==
    IF remaining = 0 \/ ~r.ok THEN r
    ELSE LET failed == [ok |-> FALSE, pos |-> r.pos, stops |-> r.stops]
         IN  IF r.pos + 6 > Len(b) THEN failed
             ELSE LET routes_at == r.pos + 6 + read_uint16(b, r.pos + 4) + 16
                  IN  IF routes_at + 4 > Len(b) THEN failed
                      ELSE LET num_routes == read_uint32(b, routes_at)
                               transfers_at == routes_at + 4 + 4 * num_routes
                           IN  IF num_routes > Len(b) \/ transfers_at + 4 > Len(b) THEN failed
                               ELSE LET num_transfers == read_uint32(b, transfers_at)
                                        end == transfers_at + 4 + 8 * num_transfers
                                        route_ids_internal == read_uint32_list(b, routes_at + 4, num_routes)
                                        IndicesOf(rid) == IF rid \in DOMAIN route_id_to_idx
                                                          THEN route_id_to_idx[rid] ELSE <<>>
                                    IN  IF num_transfers > Len(b) \/ end > Len(b) THEN failed
                                        ELSE load_stops_loop(b, route_id_to_idx, remaining - 1,
                                                 [ok |-> TRUE, pos |-> end,
                                                  stops |-> Append(r.stops,
                                                      [stop_id |-> read_uint32(b, r.pos),
                                                       route_indices |-> Flatten(MapSeq(route_ids_internal, IndicesOf)),
                                                       transfers |-> [i \in 1 .. num_transfers |->
                                                           <<read_uint32(b, transfers_at + 4 + 8 * (i - 1)),
                                                             read_int32(b, transfers_at + 8 + 8 * (i - 1))>>]])])

\* load_stops(stops_path, route_id_to_idx): the magic is compared, the schema version
\* is read and the count drives the loop.
load_stops(b, route_id_to_idx) ==
    IF Len(b) < 10 \/ SubSeq(b, 1, 4) # StopsMagic THEN [ok |-> FALSE, stops |-> <<>>]
    ELSE LET r == load_stops_loop(b, route_id_to_idx, read_uint32(b, 6),
                      [ok |-> TRUE, pos |-> 10, stops |-> <<>>])
         IN  IF r.ok THEN [ok |-> TRUE, stops |-> r.stops] ELSE [ok |-> FALSE, stops |-> <<>>]

\* The stop_to_routes loop of load_index: r = [ok, pos, stop_to_routes].
RECURSIVE load_stop_to_routes(_, _, _)
load_stop_to_routes(b, remaining, r) ==
    IF remaining = 0 \/ ~r.ok THEN r
    ELSE LET failed == [ok |-> FALSE, pos |-> r.pos, stop_to_routes |-> r.stop_to_routes]
         IN  IF r.pos + 8 > Len(b) THEN failed
             ELSE LET num_routes == read_uint32(b, r.pos + 4)
                      end == r.pos + 8 + 4 * num_routes
                  IN  IF num_routes > Len(b) \/ end > Len(b) THEN failed
                      ELSE load_stop_to_routes(b, remaining - 1,
                               [ok |-> TRUE, pos |-> end,
                                stop_to_routes |-> Append(r.stop_to_routes,
                                    <<read_uint32(b, r.pos), read_uint32_list(b, r.pos + 8, num_routes)>>)])

\* One of the two offset tables load_index skips: the position after it, or -1 on a
\* short read.
skip_offsets(b, pos) ==
    IF pos + 4 > Len(b) THEN -1
    ELSE LET n == read_uint32(b, pos)
         IN  IF n > Len(b) \/ pos + 4 + 12 * n > Len(b) THEN -1 ELSE pos + 4 + 12 * n

\* load_index(index_path): the magic is compared and the schema version is read.
load_index(b) ==
    LET failed == [ok |-> FALSE, stop_to_routes |-> <<>>]
    IN  IF Len(b) < 10 \/ SubSeq(b, 1, 4) # IndexMagic THEN failed
        ELSE LET r == load_stop_to_routes(b, read_uint32(b, 6),
                          [ok |-> TRUE, pos |-> 10, stop_to_routes |-> <<>>])
                 after_routes == IF r.ok THEN skip_offsets(b, r.pos) ELSE -1
                 after_stops == IF after_routes >= 0 THEN skip_offsets(b, after_routes) ELSE -1
             IN  IF after_stops >= 0 THEN [ok |-> TRUE, stop_to_routes |-> r.stop_to_routes]
                 ELSE failed

\* route_id_to_idx of load_routes: internal route ID -> the positions of its records.
route_id_to_idx_of(rts) ==
    [rid \in {rts[i].route_id : i \in 1 .. Len(rts)} |->
        SortedSeq({i - 1 : i \in {j \in 1 .. Len(rts) : rts[j].route_id = rid}})]

\* The three loads the query tool starts with, in order; open() raises on a file
\* that is not there, and the first failure ends the run.
load_network(dir) ==
    LET rts == IF "routes.bin" \in DOMAIN dir THEN load_routes(dir["routes.bin"]) ELSE LoadFailed
        sts == IF rts.ok /\ "stops.bin" \in DOMAIN dir
               THEN load_stops(dir["stops.bin"], route_id_to_idx_of(rts.routes))
               ELSE [ok |-> FALSE, stops |-> <<>>]
        idx == IF sts.ok /\ "index.bin" \in DOMAIN dir
               THEN load_index(dir["index.bin"])
               ELSE [ok |-> FALSE, stop_to_routes |-> <<>>]
    IN  [ok |-> idx.ok,
         routes |-> rts.routes,
         failed |-> IF ~rts.ok THEN "routes.bin"
                    ELSE IF ~sts.ok THEN "stops.bin"
                    ELSE IF ~idx.ok THEN "index.bin" ELSE "",
         stops |-> sts.stops,
         index |-> idx.stop_to_routes]

LoadNetwork ==
    /\ pc \in {"idle", "checked"}
    /\ loaded = NoLoaded
    /\ loaded' = load_network(outdir.files)
    /\ UNCHANGED <<disk, codec>>
    /\ UNCHANGED pipe_vars
    /\ UNCHANGED raptor_vars
    /\ UNCHANGED period_vars
    /\ UNCHANGED artifact_vars

ValidateNext ==
    \/ ValidateOutput
    \/ LoadNetwork

ValidateSpec == ValidateInit /\ [][ValidateNext]_vars

\* ================================================================ convert(), loop routes
\* Stop sequences that come back to a stop, and one that does not.
LoopPatterns == { <<11, 12, 11>>, <<11, 12, 13, 12>>, <<11, 12, 13>> }

LoopTripChoice == [route_id : RouteIdsTxt, direction_id : {0, 1},
                   pattern : LoopPatterns, start : StartTimes]

\* convert() after reader.read_all() on a feed whose trips may serve a stop twice.
LoopInit ==
    /\ pc = "read"
    /\ \E n \in 1 .. MaxTrips : \E f \in [1 .. n -> LoopTripChoice] : reader = ReaderOf(f)
    /\ files = FilesOf(reader)
    /\ config \in [allow_partial_trips : BOOLEAN, compression : {TRUE},
                     format : {"binary"}, debug_json : {FALSE},
                     split_by_periods : {FALSE}, mode : {"auto"}]
    /\ report = NoReport
    /\ routes = <<>>
    /\ stops = <<>>
    /\ index = NoIndex
    /\ out = NoOutput
    /\ RaptorIdle
    /\ CodecIdle
    /\ PeriodIdle
    /\ ArtifactIdle

LoopSpec == LoopInit /\ [][Next]_vars

\* ================================================================ convert(), run again
\* Number of runs of convert() on one feed, and the clock values a run may start at.
MaxRuns == 2

MaxClock == 3

write_uint64(v) == write_uint32(v) \o <<0, 0, 0, 0>>

\* IndexWriter.write_header and write_index: the three tables, each by ascending key.
write_index_bytes(idx, schema_version) ==
    LET StopEntry(s) == write_uint32(s) \o write_uint32(Len(idx.stop_to_routes[s]))
                            \o Flatten(MapSeq(idx.stop_to_routes[s], write_uint32))
        RouteOffset(r) == write_uint32(r) \o write_uint64(idx.route_offsets[r])
        StopOffset(s) == write_uint32(s) \o write_uint64(idx.stop_offsets[s])
    IN  IndexMagic \o write_uint16(schema_version)
            \o write_uint32(Cardinality(DOMAIN idx.stop_to_routes))
            \o Flatten(MapSeq(SortedSeq(DOMAIN idx.stop_to_routes), StopEntry))
            \o write_uint32(Cardinality(DOMAIN idx.route_offsets))
            \o Flatten(MapSeq(SortedSeq(DOMAIN idx.route_offsets), RouteOffset))
            \o write_uint32(Cardinality(DOMAIN idx.stop_offsets))
            \o Flatten(MapSeq(SortedSeq(DOMAIN idx.stop_offsets), StopOffset))

\* The three binary files written for the routes, stops and index of a run; the
\* routes and stops of the model's feeds have empty names.
binary_files_of(rts, sts, idx0, cfg) ==
    LET named_routes == [i \in DOMAIN rts |->
            [route_id_internal |-> rts[i].route_id_internal, route_name |-> <<>>,
             stop_ids |-> rts[i].stop_ids, trips |-> rts[i].trips]]
        named_stops == [i \in DOMAIN sts |->
            [stop_id_internal |-> sts[i].stop_id_internal, name |-> <<>>,
             route_ids |-> sts[i].route_ids, transfers |-> sts[i].transfers]]
        w == write_binary_files(named_routes, named_stops, SchemaVersion, cfg.compression)
        idx == [stop_to_routes |-> idx0.stop_to_routes,
                route_offsets |-> w.route_offsets,
                stop_offsets |-> w.stop_offsets]
    IN  [f \in Range(BinaryFiles) |->
            IF f = "routes.bin" THEN w.routes_bin
            ELSE IF f = "stops.bin" THEN w.stops_bin
            ELSE write_index_bytes(idx, SchemaVersion)]

\* The directory after the files are written, each opened for appending instead of
\* being written anew.
write_run_Append(written, start_time, before) ==
    LET files_after == [f \in DOMAIN written \cup DOMAIN before.files |->
                           IF f \in DOMAIN written
                           THEN (IF f \in DOMAIN before.files THEN before.files[f] ELSE <<>>)
                                    \o written[f]
                           ELSE before.files[f]]
    IN  [start_time |-> start_time,
         dir |-> [files |-> files_after,
                  manifest |-> [exists |-> TRUE, json |-> TRUE,
                                outputs |-> [f \in DOMAIN written |-> sha256(files_after[f])],
                                created_at |-> start_time]]]

\* The directory after a run started at start_time has written its files into a
\* directory holding `before`: each file is opened "wb", and the manifest records
\* the digest of each file written and the start time.
write_run(written, start_time, before) ==
    LET files_after == [f \in DOMAIN written \cup DOMAIN before.files |->
                           IF f \in DOMAIN written THEN written[f] ELSE before.files[f]]
    IN  [start_time |-> start_time,
         dir |-> [files |-> files_after,
                  manifest |-> [exists |-> TRUE, json |-> TRUE,
                                outputs |-> [f \in DOMAIN written |-> sha256(files_after[f])],
                                created_at |-> start_time]]]

\* convert() after reader.read_all() on a feed of trips in one direction, with an
\* output directory that holds nothing yet.
RepeatInit ==
    /\ pc = "read"
    /\ \E n \in 1 .. MaxTrips : \E f \in [1 .. n -> TripChoice] :
          /\ \A i \in 1 .. n : f[i].direction_id = 0
          /\ reader = ReaderOf(f)
    /\ files = FilesOf(reader)
    /\ config \in [allow_partial_trips : BOOLEAN, compression : BOOLEAN,
                     format : {"binary"}, debug_json : {FALSE},
                     split_by_periods : {FALSE}, mode : {"auto"}]
    /\ report = NoReport
    /\ routes = <<>>
    /\ stops = <<>>
    /\ index = NoIndex
    /\ out = NoOutput
    /\ RaptorIdle
    /\ CodecIdle
    /\ PeriodIdle
    /\ ArtifactIdle

\* _write_period_output, second half, with the bytes of the files: the run, which
\* started later than the run before it, leaves its files and manifest in the
\* directory; convert() is then called again on the same feed.
WriteRun ==
    /\ pc = "indexed"
    /\ Len(runs) < MaxRuns
    /\ \E start_time \in 1 .. MaxClock :
          /\ runs # <<>> => start_time > runs[Len(runs)].start_time
          /\ \E run \in {write_run(binary_files_of(routes, stops, index, config),
                                    start_time, outdir)} :
                /\ runs' = Append(runs, run)
                /\ outdir' = run.dir
    /\ out' = [routes_bin |-> [i \in DOMAIN routes |-> write_route(routes[i], config.compression)],
               stats |-> ManifestStats(routes, stops),
               written |-> FilesWritten(config) \o <<"manifest.json">>,
               manifest_outputs |-> Range(FilesWritten(config))]
    /\ pc' = IF Len(runs) + 1 < MaxRuns THEN "read" ELSE "written"
    /\ UNCHANGED <<files, reader, config, report, routes, stops, index, checked>>
    /\ UNCHANGED raptor_vars
    /\ UNCHANGED codec_vars
    /\ UNCHANGED period_vars

RepeatNext ==
    \/ Validate
    \/ BuildRoutes
    \/ BuildAndSortTrips
    \/ BuildStopsAndIndex
    \/ WriteRun

RepeatSpec == RepeatInit /\ [][RepeatNext]_vars

\* ------------------------------------------------------------ raptor() claims
\* Every transfer of the network has a walk time >= 0.
NonNegativeWalks(nw) ==
    \A s \in DOMAIN nw.transfers : \A i \in DOMAIN nw.transfers[s] :
        nw.transfers[s][i].walk_time >= 0

\* The earliest time a ride can reach stop s: the ride boards a trip at a position a
\* of its route, at or after arrive[stop at a], and leaves it at a position b >= a.
\* INF when no ride reaches s.
RideArrival(nw, arrive, s) ==
    LET RidesOf(r) ==
            LET route == nw.routes[r]
            IN  {route.trips[y[1]].arrival_times[y[3]] :
                    y \in {x \in (DOMAIN route.trips) \X (DOMAIN route.stop_ids)
                                    \X (DOMAIN route.stop_ids) :
                              /\ x[2] <= x[3]
                              /\ route.stop_ids[x[3]] = s
                              /\ arrive[route.stop_ids[x[2]]] < INF
                              /\ route.trips[x[1]].arrival_times[x[2]]
                                     >= arrive[route.stop_ids[x[2]]]}}
        all == UNION {RidesOf(r) : r \in DOMAIN nw.routes}
    IN  IF all = {} THEN INF ELSE Min(all)

\* The earliest arrival at every stop over the itineraries of exactly kk rides, each
\* ride optionally followed by one footpath; INF where there is none.
RECURSIVE ItineraryArrival(_, _, _)
ItineraryArrival(nw, q, kk) ==
    IF kk = 0
    THEN [s \in QStops |-> IF s = q.source THEN q.departure_time ELSE INF]
    ELSE LET before == ItineraryArrival(nw, q, kk - 1)
             ride == [s \in QStops |-> RideArrival(nw, before, s)]
             Walks(s) == UNION {{ride[p] + t.walk_time :
                                   t \in {x \in Range(nw.transfers[p]) : x.target = s}} :
                                p \in {x \in QStops : ride[x] < INF}}
         IN  [s \in QStops |-> Min({ride[s]} \cup Walks(s))]

\* The minimum arrival time at the target over the itineraries of at most max_rounds rides.
EarliestArrival(nw, q) ==
    Min({ItineraryArrival(nw, q, kk)[q.target] : kk \in 0 .. q.max_rounds})

\* C1: for every timetable with walk times >= 0, raptor() returns None exactly when no
\* itinerary of at most max_rounds rides reaches the target, and otherwise the arrival
\* time of the last leg of the returned journey is the minimum arrival time at the
\* target over those itineraries (the journey is empty when source = target).
C1_EarliestArrivalReturned ==
    (rpc = "done" /\ NonNegativeWalks(net)) =>
        /\ (result = "None") <=> (EarliestArrival(net, query) = INF)
        /\ result = "journey" =>
              IF query.source = query.target
              THEN recon.journey = <<>>
              ELSE /\ recon.journey # <<>>
                   /\ recon.journey[Len(recon.journey)].arrival = EarliestArrival(net, query)

\* C2: every call of raptor() terminates, also on a network with negative walk times:
\* the rounds finish and the reconstruction loop, whose iterations depend only on
\* (current_round, current_stop), never comes back to a pair it has already processed.
C2_QueryTerminates ==
    ~(/\ rpc = "reconstruct"
      /\ LoopContinues
      /\ <<recon.current_round, recon.current_stop>> \in recon.visited)

\* ------------------------------------------------------------ canonical pattern
\* The stop sequences of a route's group, as tuples of internal stop IDs.
GroupSequences(route) ==
    LET Internal(stop_id) == get_internal_stop_id(reader, stop_id)
        InternalSeq(q) == MapSeq(q, Internal)
    IN  MapSeq(SequencesForRoute(reader, <<route.route_id_gtfs, route.key_direction>>),
               InternalSeq)

\* The canonical pattern has the maximal count and is the smallest with that count.
ModalAndSmallest(route) ==
    LET seqs == GroupSequences(route)
        n == CountOf(seqs, route.stop_ids)
    IN  /\ n > 0
        /\ \A q \in Range(seqs) :
              /\ CountOf(seqs, q) <= n
              /\ CountOf(seqs, q) = n => (q = route.stop_ids \/ TupleLess(route.stop_ids, q))

\* The same rows in one fixed order: trips by trip_id, stop_times by
\* (trip_id, stop_sequence, stop_id).
ReferenceFiles(fl) ==
    LET Keyed(row) == [key |-> <<row.trip_id, row.stop_sequence, row.stop_id>>, row |-> row]
    IN  [trips |-> read_trips(fl.trips),
         stop_times |-> MapSeq(SortKeyed(MapSeq(fl.stop_times, Keyed)), RowOf)]

\* C6: the canonical pattern build_routes chooses for a (route_id, direction_id) group
\* has the maximal occurrence count among the group's trips and is the
\* lexicographically smallest of the sequences with that count, and the choice does
\* not depend on the order of the rows of trips.txt and stop_times.txt: it is the
\* choice made for the same rows in the reference order.
C6_CanonicalPatternAnyRowOrder ==
    pc = "routes" =>
        /\ \A i \in DOMAIN routes : ModalAndSmallest(routes[i])
        /\ routes = build_routes(read_all(ReferenceFiles(files)))

\* ------------------------------------------------------------ pipeline claims
TripsBuilt == pc \in {"trips", "indexed", "written"}

RoutesBuilt == pc \in {"routes", "trips", "indexed", "written"}

\* The trips.txt row of a trip.
FeedTrip(trip_id) == CHOOSE t \in Range(reader.trips) : t.trip_id = trip_id

\* The trips.txt rows of the (route_id, direction_id) group a route was built for.
GroupTrips(route) ==
    {t \in Range(reader.trips) :
        t.route_id = route.route_id_gtfs /\ t.direction_id = route.key_direction}

\* The trip_ids in a route's trip list.
ListedTripIds(route) == {route.trips[j].trip_id_gtfs : j \in DOMAIN route.trips}

\* C3: after build_routes and build_and_sort_trips, every trip in the trip list of the
\* route built for a (route_id, direction_id) pair has that route_id and that
\* direction_id in the feed, so no trip is listed by two different routes.
C3_TripsBelongToTheirRoute ==
    TripsBuilt =>
        /\ \A i \in DOMAIN routes : \A id \in ListedTripIds(routes[i]) :
              FeedTrip(id) \in GroupTrips(routes[i])
        /\ \A i, j \in DOMAIN routes :
              i # j => ListedTripIds(routes[i]) \cap ListedTripIds(routes[j]) = {}

\* C4: the routes emitted by build_routes carry pairwise distinct route_id_internal
\* values, assigned 0, 1, 2, ... in ascending order of (route_id, direction_id).
C4_FreshSequentialRouteIds ==
    RoutesBuilt =>
        /\ \A i, j \in DOMAIN routes :
              i # j => routes[i].route_id_internal # routes[j].route_id_internal
        /\ \A i \in DOMAIN routes : routes[i].route_id_internal = i - 1
        /\ \A i, j \in DOMAIN routes :
              i < j => TupleLess(<<routes[i].route_id_gtfs, routes[i].key_direction>>,
                                 <<routes[j].route_id_gtfs, routes[j].key_direction>>)

StrictlyAscending(s) == \A i, j \in DOMAIN s : i < j => s[i] < s[j]

\* index.stop_to_routes[s], empty for a stop without entry.
StopToRoutes(s) ==
    IF s \in DOMAIN index.stop_to_routes THEN index.stop_to_routes[s] ELSE <<>>

InternalStops == {reader.stop_id_map[x] : x \in DOMAIN reader.stop_id_map}

\* C5: after build_stops and build_network_index, for every stop s and every emitted
\* route r, the ID of r is in index.stop_to_routes[s] exactly when s occurs in the
\* canonical pattern of r; every list is strictly ascending; a stop served by both
\* directions of one route_id is mapped to two route IDs.
C5_StopToRoutesMatchesPatterns ==
    pc \in {"indexed", "written"} =>
        /\ \A s \in InternalStops : \A i \in DOMAIN routes :
              (routes[i].route_id_internal \in Range(StopToRoutes(s)))
                  <=> (s \in Range(routes[i].stop_ids))
        /\ \A s \in InternalStops : StrictlyAscending(StopToRoutes(s))
        /\ \A s \in InternalStops : \A i, j \in DOMAIN routes :
              (/\ i # j
               /\ routes[i].route_id_gtfs = routes[j].route_id_gtfs
               /\ s \in Range(routes[i].stop_ids)
               /\ s \in Range(routes[j].stop_ids))
                  => Len(StopToRoutes(s)) >= 2

\* The first defined (non-missing) arrival time of an aligned row, INF when it has none.
FirstDefined(times) ==
    IF \A i \in DOMAIN times : times[i] = INF THEN INF
    ELSE times[Min({i \in DOMAIN times : times[i] # INF})]

\* C7: for every route after build_and_sort_trips, with allow_partial false or true,
\* the trips are in ascending order of their first defined arrival time, and trips with
\* equal first defined time are in ascending order of internal trip ID.
C7_TripsSortedByFirstDefinedTime ==
    TripsBuilt =>
        \A i \in DOMAIN routes : \A a, b \in DOMAIN routes[i].trips :
            a < b =>
                LET ta == routes[i].trips[a]
                    tb == routes[i].trips[b]
                IN  \/ FirstDefined(ta.arrival_times) < FirstDefined(tb.arrival_times)
                    \/ /\ FirstDefined(ta.arrival_times) = FirstDefined(tb.arrival_times)
                       /\ ta.trip_id_internal < tb.trip_id_internal

\* C8: for every route and every trip kept by build_and_sort_trips on a feed that
\* passed validation, the defined entries of the trip's aligned arrival_times are
\* non-decreasing along the canonical pattern.
C8_AlignedTimesNonDecreasing ==
    (TripsBuilt /\ report.valid) =>
        \A i \in DOMAIN routes : \A j \in DOMAIN routes[i].trips :
            LET times == routes[i].trips[j].arrival_times
            IN  \A a, b \in DOMAIN times :
                    (a < b /\ times[a] # INF /\ times[b] # INF) => times[a] <= times[b]

\* The stops at which the feed holds a stop_time row of the trip.
StopsWithRow(trip_id) ==
    {reader.stop_id_map[st.stop_id] : st \in {u \in Range(reader.stop_times) : u.trip_id = trip_id}}

\* C9: with allow_partial = False, after build_and_sort_trips no trip kept in any route
\* is flagged partial or contains a missing entry, and every trip of the route's
\* (route_id, direction_id) group that has a stop_time for every stop of the canonical
\* pattern is kept.
C9_PartialTripsRejected ==
    (TripsBuilt /\ ~config.allow_partial_trips) =>
        \A i \in DOMAIN routes :
            /\ \A j \in DOMAIN routes[i].trips :
                  /\ ~routes[i].trips[j].is_partial
                  /\ INF \notin Range(routes[i].trips[j].arrival_times)
                  /\ Len(routes[i].trips[j].arrival_times) = Len(routes[i].stop_ids)
            /\ \A t \in GroupTrips(routes[i]) :
                  Range(routes[i].stop_ids) \subseteq StopsWithRow(t.trip_id)
                      => t.trip_id \in ListedTripIds(routes[i])

\* C9 witness: partial trips are disallowed, a route keeps a trip of its group and
\* another trip of the group, which misses a canonical stop, was dropped.
C9_Witness ==
    /\ TripsBuilt
    /\ ~config.allow_partial_trips
    /\ \E i \in DOMAIN routes : \E t, u \in GroupTrips(routes[i]) :
          /\ t.trip_id \in ListedTripIds(routes[i])
          /\ u.trip_id \notin ListedTripIds(routes[i])
          /\ ~(Range(routes[i].stop_ids) \subseteq StopsWithRow(u.trip_id))

\* C10: in the output of convert without period split, every route written has at
\* least one trip, and the routes statistic of the manifest counts exactly the routes
\* that have a trip.
C10_WrittenRoutesHaveTrips ==
    pc = "written" =>
        /\ \A i \in DOMAIN out.routes_bin :
              out.routes_bin[i].trip_count >= 1 /\ out.routes_bin[i].trips # <<>>
        /\ Len(out.routes_bin) = Len(routes)
        /\ out.stats.routes = Cardinality({i \in DOMAIN routes : routes[i].trips # <<>>})

\* C10 witness: an output was written after a trip of some route's group was dropped
\* as partial.
C10_Witness ==
    /\ pc = "written"
    /\ out.routes_bin # <<>>
    /\ \E i \in DOMAIN routes : \E u \in GroupTrips(routes[i]) :
          /\ u.trip_id \notin ListedTripIds(routes[i])
          /\ ~(Range(routes[i].stop_ids) \subseteq StopsWithRow(u.trip_id))

\* ------------------------------------------------------------ convert() claims
\* C16: convert goes through Read, Validate, Transform, Write, Manifest in that
\* order. Nothing is validated, built or written before the feed is read; when the
\* validation report has an error, convert has stopped with no route built and no
\* output file written; routes are built only on a valid report; files are written
\* only after the stops and the index are built; and manifest.json is the last
\* file written, after every artifact file its outputs list.
C16_StagesInOrder ==
    /\ pc \in {"files", "read"} =>
          report = NoReport /\ routes = <<>> /\ stops = <<>> /\ index = NoIndex /\ out = NoOutput
    /\ (pc \notin {"files", "read"} /\ report.errors # {}) => (pc = "failed" /\ ~report.valid)
    /\ pc = "failed" =>
          /\ report = validate_feed(reader) /\ report.errors # {}
          /\ routes = <<>> /\ stops = <<>> /\ index = NoIndex /\ out = NoOutput
    /\ pc \in {"validated", "routes", "trips"} =>
          report.valid /\ stops = <<>> /\ index = NoIndex /\ out = NoOutput
    /\ pc = "indexed" => report.valid /\ out = NoOutput
    /\ out.written # <<>> =>
          /\ pc = "written" /\ report.valid
          /\ index = build_network_index(routes, stops)
          /\ out.written[Len(out.written)] = "manifest.json"
          /\ \A i \in DOMAIN out.written :
                out.written[i] = "manifest.json" => i = Len(out.written)
          /\ out.manifest_outputs = {out.written[i] : i \in 1 .. (Len(out.written) - 1)}

\* A feed with a validation error has been validated, and convert has raised.
C16_Witness ==
    /\ pc = "failed"
    /\ report.errors # {}
    /\ Len(files.stop_times) > 0

\* ------------------------------------------------------------ reader claims
\* Some trip's rows stand in stop_times.txt with stop_sequence values out of
\* ascending order.
OutOfOrderRows(fl) ==
    \E i, j \in DOMAIN fl.stop_times :
        /\ i < j
        /\ fl.stop_times[i].trip_id = fl.stop_times[j].trip_id
        /\ fl.stop_times[i].stop_sequence > fl.stop_times[j].stop_sequence

\* One table after read_all(): the sorted external IDs and the two maps are
\* mutually inverse bijections between the loaded external IDs and 0 .. N - 1, the
\* entity at position i has internal ID i, and internal IDs increase with the
\* external IDs.
InverseBijections(ids, to_internal, to_external) ==
    LET N == Len(ids)
    IN  /\ DOMAIN to_internal = Range(ids)
        /\ DOMAIN to_external = 0 .. (N - 1)
        /\ \A x \in Range(ids) : to_internal[x] \in 0 .. (N - 1) /\ to_external[to_internal[x]] = x
        /\ \A i \in 0 .. (N - 1) : to_external[i] \in Range(ids) /\ to_internal[to_external[i]] = i
        /\ \A i \in 1 .. N : to_internal[ids[i]] = i - 1
        /\ \A x, y \in Range(ids) : x < y => to_internal[x] < to_internal[y]

StopIdOf(row) == row.stop_id

RouteIdOf(row) == row.route_id

TripIdOf(row) == row.trip_id

\* C18: after read_all, for stops, routes and trips alike, the external-to-internal
\* map and the internal-to-external map are mutually inverse bijections between the
\* loaded external IDs and 0 .. N - 1, N the number of loaded entities; the entity
\* at position i has internal ID i; internal IDs increase with the external IDs.
C18_IdMapsAreInverseBijections ==
    pc # "files" =>
        /\ InverseBijections(MapSeq(reader.stops, StopIdOf),
                             reader.stop_id_map, reader.internal_to_stop)
        /\ InverseBijections(MapSeq(reader.routes, RouteIdOf),
                             reader.route_id_map, reader.internal_to_route)
        /\ InverseBijections(MapSeq(reader.trips, TripIdOf),
                             reader.trip_id_map, reader.internal_to_trip)

\* C17: a feed in which the stop_times rows of a trip carry stop_sequence values
\* out of ascending order is, once read and validated, reported invalid with an
\* unordered stop_sequence error, and convert fails.
C17_UnorderedStopSequenceRejected ==
    (pc \notin {"files", "read"} /\ OutOfOrderRows(files)) =>
        /\ ~report.valid
        /\ "unordered_stop_sequence" \in report.errors
        /\ pc = "failed"

\* ------------------------------------------------------------ period split claims
\* The internal IDs of the trips that survived alignment: the trips of the global
\* route list.
SurvivingTrips ==
    {routes[i].trips[j].trip_id_internal : <<i, j>> \in
        {q \in (DOMAIN routes) \X (0 .. MaxTrips + 1) : q[2] \in DOMAIN routes[q[1]].trips}}

\* The internal IDs of the trips in the route records written for the p-th period.
TripsWrittenIn(p) ==
    LET bin == period_outputs[p].out.routes_bin
    IN  {bin[q[1]].trips[q[2]].trip_id_internal : q \in
            {x \in (DOMAIN bin) \X (0 .. MaxTrips + 1) : x[2] \in DOMAIN bin[x[1]].trips}}

\* C19: when convert has run with split_by_periods and found periods, every trip
\* that survived alignment is written in the output of exactly one period.
C19_PeriodsPartitionTrips ==
    (pc = "written" /\ config.split_by_periods /\ periods # <<>>) =>
        \A t \in SurvivingTrips :
            Cardinality({p \in DOMAIN period_outputs : t \in TripsWrittenIn(p)}) = 1

\* The positions in the global route list of the routes with a trip in the period.
RoutesOfPeriod(period) ==
    LET Position(i) == i
        HasTripInPeriod(i) ==
            \E j \in DOMAIN routes[i].trips :
                routes[i].trips[j].trip_id_gtfs \in get_trips_for_period(reader, period)
    IN  SelectSeq([i \in DOMAIN routes |-> i], HasTripInPeriod)

\* C20: with split_by_periods the routes of every period processed are the global
\* routes that have a trip in the period, in the order of the global list, each with
\* the global route's ID and canonical stop_ids and with exactly the global route's
\* trips of the period in their global order; the records written are those of
\* these routes; and the global route list is what build_and_sort_trips returned,
\* whatever periods were processed before.
C20_PeriodRoutesFromGlobalList ==
    (config.split_by_periods /\ periods # <<>> /\ pc \in {"trips", "written"}) =>
        /\ routes = build_and_sort_trips(reader, build_routes(reader), config.allow_partial_trips)
        /\ \A p \in DOMAIN period_outputs :
              LET kept == RoutesOfPeriod(periods[p])
                  mine == period_outputs[p].routes
                  InPeriod(trip) ==
                      trip.trip_id_gtfs \in get_trips_for_period(reader, periods[p])
              IN  /\ period_outputs[p].name = periods[p].name
                  /\ Len(mine) = Len(kept)
                  /\ \A n \in DOMAIN mine :
                        /\ mine[n].route_id_internal = routes[kept[n]].route_id_internal
                        /\ mine[n].route_id_gtfs = routes[kept[n]].route_id_gtfs
                        /\ mine[n].stop_ids = routes[kept[n]].stop_ids
                        /\ mine[n].trips = SelectSeq(routes[kept[n]].trips, InPeriod)
                        /\ mine[n].trips # <<>>
                        /\ period_outputs[p].out.routes_bin[n] =
                              write_route(mine[n], config.compression)
                  /\ Len(period_outputs[p].out.routes_bin) = Len(mine)

\* Two periods are written, one of them without one of the global routes and one
\* with a route that has fewer trips than the global route.
C20_Witness ==
    /\ pc = "written"
    /\ Len(period_outputs) >= 2
    /\ \E p \in DOMAIN period_outputs : Len(period_outputs[p].routes) < Len(routes)
    /\ \E p \in DOMAIN period_outputs : \E n \in DOMAIN period_outputs[p].routes :
          \E i \in DOMAIN routes :
              /\ routes[i].stop_ids = period_outputs[p].routes[n].stop_ids
              /\ routes[i].key_direction = period_outputs[p].routes[n].key_direction
              /\ Len(period_outputs[p].routes[n].trips) < Len(routes[i].trips)

\* ------------------------------------------------------------ writer claims
\* C11: in every route record written by write_route during convert, under every
\* configuration, each trip contributes exactly stop_count time values, and no
\* partial trip reaches the writer.
C11_EveryTripWritesStopCountTimes ==
    pc = "written" =>
        /\ \A i \in DOMAIN out.routes_bin :
              \A j \in DOMAIN out.routes_bin[i].trips :
                  Len(out.routes_bin[i].trips[j].times) = out.routes_bin[i].stop_count
        /\ \A i \in DOMAIN routes : \A j \in DOMAIN routes[i].trips :
              ~routes[i].trips[j].is_partial

\* ------------------------------------------------------------ compression claims
\* C13: decode_times(encode_times(t)) = t and encode_times(decode_times(e)) = e for
\* every integer sequence, the empty one included; encode_times keeps the first value
\* absolute and emits t[i] - t[i-1] for every i >= 1 (0-based).
C13_DeltaCodecRoundTrip ==
    /\ codec.step = "round_trip" => codec.decoded = codec.input
    /\ codec.step = "back" => codec.encoded = codec.input
    /\ codec.step \in {"encoded", "round_trip"} =>
          /\ Len(codec.encoded) = Len(codec.input)
          /\ \A i \in DOMAIN codec.input :
                codec.encoded[i] = IF i = 1 THEN codec.input[1]
                                   ELSE codec.input[i] - codec.input[i - 1]

\* A list of MaxTimes values that goes down and up again has made the round trip.
C13_Witness ==
    /\ codec.step = "round_trip"
    /\ Len(codec.input) = MaxTimes
    /\ codec.input[2] < codec.input[1]
    /\ codec.input[3] > codec.input[2]
    /\ codec.decoded = codec.input

\* ------------------------------------------------------------ binary file claims
\* C12: routes without partial trips, written by write_binary_files with compression and
\* read back by load_routes, come back in order with the same internal route ID and
\* stop_ids and, for every trip in order, the same trip ID and absolute arrival times.
C12_RoutesRoundTrip ==
    (pc = "loaded" /\ config.compression) =>
        /\ loaded.ok
        /\ Len(loaded.routes) = Len(routes)
        /\ \A i \in DOMAIN routes :
              /\ loaded.routes[i].route_id = routes[i].route_id_internal
              /\ loaded.routes[i].stop_ids = routes[i].stop_ids
              /\ Len(loaded.routes[i].trips) = Len(routes[i].trips)
              /\ \A j \in DOMAIN routes[i].trips :
                    /\ loaded.routes[i].trips[j].trip_id = routes[i].trips[j].trip_id_internal
                    /\ loaded.routes[i].trips[j].arrival_times = routes[i].trips[j].arrival_times

\* The byte position at which the i-th record starts: after the 10-byte header and the
\* records before it.
RouteRecordStart(i) ==
    10 + SumSeq([j \in 1 .. (i - 1) |-> Len(write_route_bytes(routes[j], config.compression))])

StopRecordStart(i) ==
    10 + SumSeq([j \in 1 .. (i - 1) |-> Len(write_stop_bytes(stops[j]))])

\* C14: after write_binary_files, index.route_offsets has one entry for every route
\* record written and index.stop_offsets one for every stop record written, and each
\* entry is the byte position at which that record starts in its file.
C14_OffsetsAreRecordStarts ==
    pc \in {"files_written", "loaded"} =>
        /\ Cardinality(DOMAIN index.route_offsets) = Len(routes)
        /\ \A i \in DOMAIN routes :
              /\ routes[i].route_id_internal \in DOMAIN index.route_offsets
              /\ index.route_offsets[routes[i].route_id_internal] = RouteRecordStart(i)
        /\ Cardinality(DOMAIN index.stop_offsets) = Len(stops)
        /\ \A i \in DOMAIN stops :
              /\ stops[i].stop_id_internal \in DOMAIN index.stop_offsets
              /\ index.stop_offsets[stops[i].stop_id_internal] = StopRecordStart(i)

\* ------------------------------------------------------------ transfer claims
\* The walk times proposed for the pair (source, target) of list positions: the explicit
\* rows from source to target and, with gen_transfers, the generated walking transfer.
TransferCandidates(a, b) ==
    {row.min_transfer_time :
        row \in {r \in Range(reader.transfers) :
                    /\ r.from_stop_id = stops[a].stop_id_gtfs
                    /\ r.to_stop_id = stops[b].stop_id_gtfs}}
    \cup (IF /\ config.gen_transfers
             /\ a # b
             /\ haversine_distance(stops[a], stops[b]) <= config.transfer_cutoff
          THEN {WalkTime(haversine_distance(stops[a], stops[b]), config.speed_walk)}
          ELSE {})

StartsWith(content, magic) == Len(content) >= 4 /\ SubSeq(content, 1, 4) = magic

\* The conditions under which an output directory is to be reported valid.
OutputIntact(dir) ==
    /\ dir.manifest.exists
    /\ {"routes.bin", "stops.bin", "index.bin"} \subseteq DOMAIN dir.files
    /\ StartsWith(dir.files["routes.bin"], RoutesMagic)
    /\ StartsWith(dir.files["stops.bin"], StopsMagic)
    /\ StartsWith(dir.files["index.bin"], IndexMagic)
    /\ dir.manifest.json
    /\ \A f \in DOMAIN dir.manifest.outputs :
          /\ f \in DOMAIN dir.files
          /\ sha256(dir.files[f]) = dir.manifest.outputs[f]

\* C21: validate(output) returns valid = true exactly when routes.bin, stops.bin,
\* index.bin and manifest.json all exist, each binary file starts with its magic,
\* and every file named in the manifest's outputs exists with a SHA-256 equal to
\* the recorded digest.
C21_ValidIffIntact ==
    pc = "checked" => (checked.valid <=> OutputIntact(outdir))

\* validate() has answered on a directory that is as convert left it.
C21_Witness ==
    /\ pc = "checked"
    /\ checked.valid
    /\ OutputIntact(outdir)
    /\ DOMAIN outdir.manifest.outputs = {"routes.bin", "stops.bin", "index.bin"}

\* validate() has answered valid although the manifest names a file that is gone.
C21_MissingListedFileAccepted ==
    /\ pc = "checked"
    /\ checked.valid
    /\ \E f \in DOMAIN outdir.manifest.outputs : f \notin DOMAIN outdir.files

\* validate() has answered invalid on a file that has its magic and no more.
C21_BareMagicRejected ==
    /\ pc = "checked"
    /\ ~checked.valid
    /\ OutputIntact(outdir)
\* ------------------------------------------------------------ schema version claims
\* The binary artifacts of a directory whose header carries another schema version.
OtherVersion(dir) ==
    {f \in {"routes.bin", "stops.bin", "index.bin"} \cap DOMAIN dir.files :
        /\ Len(dir.files[f]) >= 6
        /\ read_uint16(dir.files[f], 4) # SchemaVersion}

NetworkLoaded == "failed" \in DOMAIN loaded

\* C22: reading an artifact whose header carries a schema version other than the
\* supported one fails with an error instead of decoding: validate_binary_files
\* fails on a directory holding one, and load_routes, load_stops and load_index
\* fail on one.
C22_OtherSchemaVersionRejected ==
    /\ (pc = "checked" /\ OtherVersion(outdir) # {}) => ~checked.valid
    /\ (NetworkLoaded /\ OtherVersion(outdir) # {}) => ~loaded.ok

\* The artifacts have been validated and loaded, one of them of another schema
\* version and all of them with their own magic.
C22_Witness ==
    /\ pc = "checked"
    /\ NetworkLoaded
    /\ OtherVersion(outdir) # {}
    /\ {"routes.bin", "stops.bin", "index.bin"} \subseteq DOMAIN outdir.files
    /\ validate_binary_files(outdir.files)
\* ------------------------------------------------------------ repeated runs
\* C23: two runs of convert on the same feed with the same configuration leave
\* byte-identical routes.bin, stops.bin and index.bin and write the same checksums
\* in their manifests' outputs.
C23_RunsAreReproducible ==
    Len(runs) = 2 =>
        /\ \A f \in Range(BinaryFiles) : runs[1].dir.files[f] = runs[2].dir.files[f]
        /\ runs[1].dir.manifest.outputs = runs[2].dir.manifest.outputs

\* Two runs at different times have written a routes.bin with a route record.
C23_Witness ==
    /\ Len(runs) = 2
    /\ runs[1].start_time # runs[2].start_time
    /\ runs[1].dir.manifest.created_at # runs[2].dir.manifest.created_at
    /\ Len(runs[2].dir.files["routes.bin"]) > 10
\* ------------------------------------------------------------ footpath claims
Rounds == 1 .. query.max_rounds

\* C24: within a round the footpath relaxation is applied once, not transitively:
\* a stop reached on foot in round k is reached from a stop whose tau[k] was
\* obtained by riding a trip in round k, and no returned journey has two
\* consecutive walk legs.
C24_FootpathsNotChained ==
    /\ \A kk \in Rounds : \A s \in QStops :
          parent[kk][s].kind = "walk" => parent[kk][parent[kk][s].prev_stop].kind = "transit"
    /\ result = "journey" =>
          \A i \in 1 .. (Len(recon.journey) - 1) :
              ~(recon.journey[i].type = "walk" /\ recon.journey[i + 1].type = "walk")

\* A journey with a walk leg has been returned.
C24_Witness ==
    /\ result = "journey"
    /\ \E i \in DOMAIN recon.journey : recon.journey[i].type = "walk"

\* A returned journey walks twice in a row.
C24_TwoWalksInARow ==
    /\ result = "journey"
    /\ \E i \in 1 .. (Len(recon.journey) - 1) :
          recon.journey[i].type = "walk" /\ recon.journey[i + 1].type = "walk"
\* ------------------------------------------------------------ parent pointer claims
\* The arrival time at the stop a parent pointer of round kk names.
ParentArrival(kk, s) ==
    IF parent[kk][s].kind = "transit" THEN tau[kk - 1][parent[kk][s].prev_stop]
    ELSE tau[kk][parent[kk][s].prev_stop]

\* C25: whenever parent[k][s] = (p, ...) is set, the arrival time at p, tau[k-1][p]
\* for a transit parent and tau[k][p] for a walking parent, is strictly less than
\* tau[k][s].
C25_ParentIsStrictlyEarlier ==
    \A kk \in Rounds : \A s \in QStops :
        parent[kk][s].kind # "none" => ParentArrival(kk, s) < tau[kk][s]

\* A ride has set the parent of the stop it was boarded at to that stop.
C25_BoardingStopIsOwnParent ==
    \E kk \in Rounds : \E s \in QStops :
        /\ parent[kk][s].kind = "transit"
        /\ parent[kk][s].prev_stop = s
        /\ tau[kk - 1][s] = tau[kk][s]
\* ------------------------------------------------------------ journey claims
TransitLegs(journey) == {i \in DOMAIN journey : journey[i].type = "transit"}

\* C26: every journey returned is a connected forward itinerary: its first leg
\* starts at the source, each leg starts where the previous one ended, its last leg
\* ends at the target, and it has at most max_rounds transit legs.
C26_JourneyIsConnected ==
    result = "journey" =>
        LET journey == recon.journey
        IN  /\ journey = <<>> => query.source = query.target
            /\ journey # <<>> =>
                  /\ journey[1].from_stop = query.source
                  /\ journey[Len(journey)].to_stop = query.target
            /\ \A i \in 1 .. (Len(journey) - 1) : journey[i + 1].from_stop = journey[i].to_stop
            /\ Cardinality(TransitLegs(journey)) <= query.max_rounds

\* A journey of two rides with a walk has been returned.
C26_Witness ==
    /\ result = "journey"
    /\ Cardinality(TransitLegs(recon.journey)) = 2
    /\ Len(recon.journey) >= 3
\* ------------------------------------------------------------ route scan claims
\* Among the trips of the route with a time at column stop_idx not before arrival,
\* one with the smallest time at that column: its index, 0 when there is none.
EarliestCatchable(route, stop_idx, arrival) ==
    LET ok == {j \in DOMAIN route.trips :
                 /\ stop_idx <= Len(route.trips[j].arrival_times)
                 /\ route.trips[j].arrival_times[stop_idx] >= arrival}
    IN  IF ok = {} THEN 0
        ELSE Min({j \in ok : \A j2 \in ok :
                    route.trips[j].arrival_times[stop_idx] <= route.trips[j2].arrival_times[stop_idx]})

\* The labels of round k after a scan that rides a current trip (cur = 0: none yet),
\* labels each stop it comes to from the current trip and then, at a stop with a
\* finite tau[k-1], considers the earliest catchable trip and continues on it when
\* it is earlier there than the current trip.
RECURSIVE ScanOnEarliestTrip(_, _, _, _, _)
ScanOnEarliestTrip(route, tau_prev, stop_idx, cur, tau_k) ==
    IF stop_idx > Len(route.stop_ids) THEN tau_k
    ELSE LET stop_id == route.stop_ids[stop_idx]
             riding == cur # 0 /\ stop_idx <= Len(route.trips[cur].arrival_times)
             improves == riding /\ route.trips[cur].arrival_times[stop_idx] < tau_k[stop_id]
             cand == IF tau_prev[stop_id] < INF
                     THEN EarliestCatchable(route, stop_idx, tau_prev[stop_id]) ELSE 0
             switch == /\ cand # 0
                       /\ \/ ~riding
                          \/ route.trips[cand].arrival_times[stop_idx]
                                < route.trips[cur].arrival_times[stop_idx]
         IN  ScanOnEarliestTrip(route, tau_prev, stop_idx + 1,
                 IF switch THEN cand ELSE cur,
                 IF improves
                 THEN [tau_k EXCEPT ![stop_id] = route.trips[cur].arrival_times[stop_idx]]
                 ELSE tau_k)

\* C27: during the scan of a route in round k, at every stop index with a finite
\* tau[k-1] the trip considered for boarding is the one with the smallest time at
\* that index among the trips not before tau[k-1] there, and the scan continues on
\* it whenever it is earlier at that index than the current trip: every stop is
\* labelled no later than such a scan labels it.
C27_ScanBoardsEarliestTrip ==
    [][(rpc = "scan" /\ routes_to_scan' # routes_to_scan) =>
          LET route_id == CHOOSE r \in routes_to_scan : r \notin routes_to_scan'
              claimed == ScanOnEarliestTrip(net.routes[route_id], tau[k - 1], 1, 0, tau[k])
          IN  \A s \in QStops : tau'[k][s] <= claimed[s]]_vars
\* ------------------------------------------------------------ loop route claims
\* The stop_times rows of a trip, in the order the reader holds them.
RowsOfTrip(rd, trip_id) ==
    LET OfTrip(st) == st.trip_id = trip_id
    IN  SelectSeq(rd.stop_times, OfTrip)

\* The trip's own stop sequence, in internal stop IDs, is the canonical pattern.
FollowsPattern(rd, route, trip_id) ==
    LET rows == RowsOfTrip(rd, trip_id)
    IN  /\ Len(rows) = Len(route.stop_ids)
        /\ \A i \in DOMAIN rows :
              get_internal_stop_id(rd, rows[i].stop_id) = route.stop_ids[i]

\* C28: for a trip whose own stop sequence equals the canonical pattern of its
\* route, the aligned arrival_times[i] is the arrival time of the trip's i-th
\* stop_time for every i, also when a stop occurs more than once in the pattern.
C28_AlignedTimesFollowStopTimes ==
    pc \in {"trips", "indexed", "written"} =>
        \A r \in DOMAIN routes : \A j \in DOMAIN routes[r].trips :
            LET td == routes[r].trips[j]
                rows == RowsOfTrip(reader, td.trip_id_gtfs)
            IN  FollowsPattern(reader, routes[r], td.trip_id_gtfs) =>
                    \A i \in DOMAIN rows : td.arrival_times[i] = rows[i].arrival_time

\* A trip that follows a pattern with a repeated stop has been aligned.
C28_LoopTripAligned ==
    /\ pc = "trips"
    /\ \E r \in DOMAIN routes : \E j \in DOMAIN routes[r].trips :
          /\ FollowsPattern(reader, routes[r], routes[r].trips[j].trip_id_gtfs)
          /\ Cardinality(Range(routes[r].stop_ids)) < Len(routes[r].stop_ids)
\* ------------------------------------------------------------ build_stops claims
\* C29: in the list build_stops returns, the element at index i has
\* stop_id_internal = i and the internal stop IDs are pairwise distinct, for every
\* feed the validator accepts, also one whose stops.txt repeats a stop_id.
C29_StopIndexIsInternalId ==
    pc \in {"indexed", "written"} =>
        /\ \A i \in DOMAIN stops : stops[i].stop_id_internal = i - 1
        /\ \A i, j \in DOMAIN stops :
              stops[i].stop_id_internal = stops[j].stop_id_internal => i = j

\* build_stops has run on an accepted feed whose stops.txt repeats a stop_id.
C29_RepeatedStopIdAccepted ==
    /\ pc = "indexed"
    /\ report.valid
    /\ \E i, j \in DOMAIN reader.stops : i # j /\ reader.stops[i].stop_id = reader.stops[j].stop_id
\* ------------------------------------------------------------ transit leg claims
\* route.stop_ids[from_idx : to_idx + 1] of a transit leg.
StopsSequence(leg) ==
    LET stop_ids == net.routes[leg.route_id].stop_ids
    IN  SubSeq(stop_ids, leg.from_idx + 1, leg.to_idx + 1)

\* C30: every transit leg of a returned journey boards strictly before it alights:
\* from_idx < to_idx, so from_stop differs from to_stop and stops_sequence has at
\* least two stops (the patterns of the network have no repeated stop).
C30_TransitLegMovesForward ==
    result = "journey" =>
        \A i \in TransitLegs(recon.journey) :
            LET leg == recon.journey[i]
            IN  /\ leg.from_idx < leg.to_idx
                /\ leg.from_stop # leg.to_stop
                /\ Len(StopsSequence(leg)) >= 2

\* A returned journey has a transit leg from a stop to itself.
C30_LegToItself ==
    /\ result = "journey"
    /\ \E i \in TransitLegs(recon.journey) :
          recon.journey[i].from_stop = recon.journey[i].to_stop
====
